---- MODULE Spec2Model ----
(***************************************************************************)
(* A model of the CAS engine of buildstream: the local object store and    *)
(* ref store of CASCache (src/src/buildstream/_cas/cascache.py), and the   *)
(* pull, push, _fetch_directory, fetch_blobs and send_blobs protocols it   *)
(* runs against a remote CAS.                                              *)
(*                                                                         *)
(* A digest is modelled by its hash; the size of the blob it names and the *)
(* Directory it decodes to are functions of the hash (content addressing). *)
(***************************************************************************)
EXTENDS Integers, Sequences, FiniteSets, TLC

\* ------------------------------------------------------------------ bounds

\* Largest negotiated max_batch_total_size_bytes of the explored remotes.
MaxBatchCap == 3
\* Number of calls (pull, push) made in one run.
MaxCalls == 2
\* Number of full FindMissingBlobs groups in the longest explored input.
MaxGroups == 2
\* Number of calls that insert into the object store in one run.
MaxInserts == 2
\* Number of calls on the ref store (set_ref, resolve_ref, ...) in one run.
MaxRefOps == 3
\* Calls of create_directory and import_files on one tree of CasBasedDirectory.
MaxVdCalls == 3

\* ---------------------------------------------- the content-addressed world

None == "none"

FileNode(name, digest) == [name |-> name, digest |-> digest]
DirectoryNode(name, digest) == [name |-> name, digest |-> digest]

\* Every blob of the explored world: its size in bytes and, read as a
\* Directory message, its files and directories lists (sorted by name).
\* "e" is the empty blob: the empty file and the empty Directory alike.
Blobs ==
  [ e  |-> [size |-> 0, files |-> <<>>, directories |-> <<>>],
    f1 |-> [size |-> 1, files |-> <<>>, directories |-> <<>>],
    f2 |-> [size |-> 2, files |-> <<>>, directories |-> <<>>],
    f3 |-> [size |-> 3, files |-> <<>>, directories |-> <<>>],
    d1 |-> [size |-> 1, files |-> <<FileNode("a", "f1")>>, directories |-> <<>>],
    d2 |-> [size |-> 2, files |-> <<FileNode("b", "f2")>>,
            directories |-> <<DirectoryNode("n", "e")>>],
    r1 |-> [size |-> 3, files |-> <<FileNode("f", "f1"), FileNode("g", "f3")>>,
            directories |-> <<DirectoryNode("x", "d1"), DirectoryNode("y", "d1"),
                              DirectoryNode("z", "d2")>>],
    r2 |-> [size |-> 3, files |-> <<FileNode("f", "f2"), FileNode("h", "e")>>,
            directories |-> <<DirectoryNode("x", "d1")>>] ]

Hash == DOMAIN Blobs
Roots == {"r1", "r2"}
Stores == {"A", "B"}
RefNames == {"n1", "n2"}

size_bytes(digest) == Blobs[digest].size

\* remote_execution_pb2.Directory().ParseFromString(blob)
ParseDirectory(digest) ==
  [files |-> Blobs[digest].files, directories |-> Blobs[digest].directories]

\* ------------------------------------------------------- sequence helpers

Range(s) == {s[i] : i \in 1..Len(s)}

RECURSIVE Flatten(_)
Flatten(ss) == IF ss = <<>> THEN <<>> ELSE Head(ss) \o Flatten(Tail(ss))

Digests(nodes) == [i \in 1..Len(nodes) |-> nodes[i].digest]

\* ------------------------------------------------------ pure tree functions

\* The generator required_blobs_for_directory, as the sequence it yields when
\* every directory it opens is readable.
RECURSIVE required_blobs_for_directory(_, _)
\* The generator if it went into the subdirectories before it yielded the
\* files.
required_blobs_FilesLast(directory_digest, excluded_subdirs) ==
  LET directory == ParseDirectory(directory_digest)
      subdirs == SelectSeq(directory.directories,
                           LAMBDA dirnode : dirnode.name \notin excluded_subdirs)
  IN  <<directory_digest>>
        \o Flatten([i \in 1..Len(subdirs) |->
                      required_blobs_for_directory(subdirs[i].digest, {})])
        \o Digests(directory.files)

required_blobs_for_directory(directory_digest, excluded_subdirs) ==
  LET directory == ParseDirectory(directory_digest)
      subdirs == SelectSeq(directory.directories,
                           LAMBDA dirnode : dirnode.name \notin excluded_subdirs)
  IN  <<directory_digest>>
        \o Digests(directory.files)
        \o Flatten([i \in 1..Len(subdirs) |->
                      required_blobs_for_directory(subdirs[i].digest, {})])

\* The Directory digests of the Merkle closure of digest: the directories the
\* generator opens (line 544), the root included.
RECURSIVE DirectoryClosure(_)
DirectoryClosure(digest) ==
  {digest} \cup UNION {DirectoryClosure(n.digest) :
                          n \in Range(ParseDirectory(digest).directories)}

\* local_missing_blobs: the digests with no object file, in input order.
local_missing_blobs(objs, digests) ==
  SelectSeq(digests, LAMBDA digest : digest \notin objs)


\* ------------------------------------------------------------------- state

VARIABLES
  objects,            \* objects[s]: the hashes with a file under s's objects/
  heads,              \* heads[s][name]: the digest in s's refs/heads/<name>
  remote_objects,     \* the blobs the remote CAS holds
  remote_refs,        \* the remote ReferenceStorage
  remote,             \* the CASRemote attributes negotiated at init()
  pc,                 \* position of the running call; "idle" between calls
  self,               \* the store (CASCache) the call runs on
  call,               \* "pull", "push" or "fetch_directory": the entry point
  ref,                \* the ref being pulled or pushed
  tree,               \* the digest the ref resolves to
  fetch_queue,        \* _fetch_directory: directories ready to parse
  fetch_next_queue,   \* _fetch_directory: directories of the pending batch
  batch,              \* the pending _CASBatchRead / _CASBatchUpdate
  dirnodes,           \* directory.directories still to visit (line 830)
  digests,            \* fetch_blobs / send_blobs: digests still to visit
  missing_blobs,      \* fetch_blobs: the list it returns
  refs,               \* push: refs still to visit
  skipped_remote,     \* push: line 279
  result,             \* what the last call returned or raised
  heads0,             \* history: heads[self] when the call started
  remote_refs0,       \* history: remote_refs when the call started
  args,               \* history: the refs the call was given
  root,               \* history: the digest _fetch_directory was called with
  parsed,             \* history: directories _fetch_directory parsed
  fetched,            \* history: blobs _fetch_directory added to objects/
  transfers,          \* history: every blob batched or streamed, and by whom
  updated,            \* history: refs this push sent UpdateReference for
  pushed,             \* history: remote refs written by some push
  last_push,          \* history: per ref, the digest of the last completed push
  calls,              \* history: the number of calls made so far
  exc                 \* history: the exception that ended the call, and where

world == <<objects, heads, remote_objects, remote_refs, remote>>
frame == <<pc, self, call, ref, tree, fetch_queue, fetch_next_queue, batch,
           dirnodes, digests, missing_blobs, refs, skipped_remote, result>>
history == <<heads0, remote_refs0, args, root, parsed, fetched, transfers,
             updated, pushed, last_push, calls, exc>>

\* remote_missing_blobs, lines 494-510.
VARIABLES
  find_pc,            \* position of remote_missing_blobs; "idle" outside it
  given_blobs,        \* the list remote_missing_blobs was given
  blobs_iter,         \* iter(blobs): what the groups have not consumed yet
  requests,           \* history: the FindMissingBlobs requests sent, in order
  missing_dict,       \* the values of the dict missing_blobs, insertion order
  find_result         \* what remote_missing_blobs returned

find == <<find_pc, given_blobs, blobs_iter, requests, missing_dict, find_result>>

\* The object store at the level of files: add_object, _ensure_blob and
\* _batch_download_complete, lines 342-389 and 737-758.
VARIABLES
  obj_dirs,           \* the directories objects/<hash[:2]>
  obj_files,          \* objects/: path |-> the inode linked there
  inodes,             \* inode |-> the bytes the file holds
  tmp_names,          \* the inodes with a name in tmpdir
  wpc,                \* wpc[w]: position of worker w; "idle" between calls
  wloc,               \* wloc[w]: the locals of the call of worker w
  wret,               \* wret[w]: how the last call of worker w ended
  wprev,              \* history: how the call of w before the last ended
  store0,             \* history: the content of objects/ when w's call began
  serial              \* history: the number of calls begun (names the inodes)

store == <<obj_dirs, obj_files, inodes, tmp_names, wpc, wloc, wret, wprev,
           store0, serial>>

\* The ref store at the level of files: set_ref, resolve_ref, update_mtime
\* and remove, lines 398-458 and 611-663.
VARIABLES
  ref_dirs,           \* the directories that exist, refs/heads and below
  ref_files,          \* the ref files: path |-> the inode renamed there
  ref_data,           \* inode |-> the bytes the file holds
  ref_tmp,            \* the inodes with a name in tmpdir
  touched,            \* the paths os.utime was called on
  rpc,                \* rpc[p]: position of process p; "idle" between calls
  rloc,               \* rloc[p]: the locals of the call of process p
  rret,               \* rret[p]: how the last call of process p ended
  stored,             \* history: per ref, the digest last renamed into place
                      \* and not unlinked since
  refs0,              \* history: the ref store when the call of p began
  refserial           \* history: the number of calls begun (names the inodes)

refstore == <<ref_dirs, ref_files, ref_data, ref_tmp, touched, rpc, rloc, rret,
              stored, refs0, refserial>>

\* diff, lines 188-198.
VARIABLES
  diff_result         \* what the last call of diff returned or raised

\* required_blobs_for_directory and _reachable_refs_dir, lines 534-552 and
\* 681-711.
VARIABLES
  walk_objects,       \* the hashes with a file under objects/
  walk_result         \* what the last traversal yielded, collected or raised

walk == <<walk_objects, walk_result>>

\* CasBasedDirectory, storage/_casbaseddirectory.py.
VARIABLES
  vd_objects,         \* the CasBasedDirectory objects, in order of construction
  vd_inserted,        \* the Directory encodings handed to add_object
  vd_result,          \* what the last call returned or raised
  vd_calls            \* number of calls made

vdir == <<vd_objects, vd_inserted, vd_result, vd_calls>>

\* The state of the operations on trees.
later == <<walk, vdir>>

refdiff == <<refstore, diff_result, later>>

\* The state of the operations that are not part of pull and push.
ext == <<find, store, refdiff>>

vars == <<world, frame, history, ext>>

\* No call of remote_missing_blobs is under way.
FindReturned(value) == [raised |-> None, value |-> value]
FindRaised(code) == [raised |-> code, value |-> <<>>]

FindParked ==
  /\ find_pc = "idle"
  /\ given_blobs = <<>>
  /\ blobs_iter = <<>>
  /\ requests = <<>>
  /\ missing_dict = <<>>
  /\ find_result = FindReturned(<<>>)

Workers == {"w1", "w2"}

NoDigest == [hash |-> <<>>, size_bytes |-> 0]

NoLocals ==
  [op |-> None, source |-> <<>>, want |-> NoDigest, tmp |-> 0, digest |-> NoDigest,
   error |-> None]

NoReturn ==
  [op |-> None, source |-> <<>>, want |-> NoDigest, digest |-> NoDigest,
   outcome |-> None]

\* An empty object store that no worker is using.
StoreParked ==
  /\ obj_dirs = {}
  /\ obj_files = {}
  /\ inodes = [k \in 1..MaxInserts |-> <<>>]
  /\ tmp_names = {}
  /\ wpc = [w \in Workers |-> "idle"]
  /\ wloc = [w \in Workers |-> NoLocals]
  /\ wret = [w \in Workers |-> NoReturn]
  /\ wprev = [w \in Workers |-> NoReturn]
  /\ store0 = [w \in Workers |-> {}]
  /\ serial = 0

RefProcs == {"p1", "p2", "p3"}

\* The ref names of the explored runs, as their path segments: one, two and
\* three segments, two of them in the same directory.
RefPaths == {<<"x">>, <<"p", "q">>, <<"a", "b", "c">>, <<"a", "b", "d">>}

\* os.path.join(self.casdir, 'refs', 'heads'), below casdir.
basedir == <<"refs", "heads">>

\* remote_execution_pb2.Digest(), line 423: every field at its default.
EmptyDigest == [hash |-> "", size_bytes |-> 0]

NoRefLocals ==
  [op |-> None, ref |-> <<>>, tree |-> EmptyDigest, tmp |-> 0, written |-> 0,
   handle |-> 0, components |-> <<>>]

NoRefReturn ==
  [op |-> None, ref |-> <<>>, outcome |-> None, value |-> EmptyDigest]

\* The ref store as a caller sees it: directories, and files with content.
RefView ==
  [dirs |-> ref_dirs, files |-> {<<f[1], ref_data[f[2]]>> : f \in ref_files}]

\* A new CASCache, lines 52-57: refs/heads exists and is empty.
RefsParked ==
  /\ ref_dirs = {<<"refs">>, basedir}
  /\ ref_files = {}
  /\ ref_data = [k \in 0..MaxRefOps |-> <<>>]
  /\ ref_tmp = {}
  /\ touched = {}
  /\ rpc = [p \in RefProcs |-> "idle"]
  /\ rloc = [p \in RefProcs |-> NoRefLocals]
  /\ rret = [p \in RefProcs |-> NoRefReturn]
  /\ stored = [r \in RefPaths |-> EmptyDigest]
  /\ refs0 = [p \in RefProcs |->
               [dirs |-> {<<"refs">>, basedir}, files |-> {}]]
  /\ refserial = 0

NoWalk ==
  [op |-> None, tree |-> None, excluded_subdirs |-> {}, update_mtime |-> FALSE,
   check_exists |-> FALSE, raised |-> None, yielded |-> <<>>,
   reachable |-> {}, opened |-> <<>>, touched |-> {}]

\* No traversal has been made.
WalkParked ==
  /\ walk_objects = {}
  /\ walk_result = NoWalk

\* No CasBasedDirectory has been constructed.
VdirParked ==
  /\ vd_objects = <<>>
  /\ vd_inserted = {}
  /\ vd_result = [op |-> None, node |-> 0, name |-> "", files |-> {}, raised |-> None,
                  ret |-> 0, go |-> FALSE, item |-> <<>>, overwritten |-> <<>>,
                  ignored |-> <<>>, files_written |-> <<>>, before |-> <<>>,
                  checked_out |-> <<>>, filelist |-> {}, previous |-> <<>>,
                  source |-> <<>>, filter |-> <<>>]
  /\ vd_calls = 0

LaterParked == WalkParked /\ VdirParked

\* diff has not been called.
DiffParked == diff_result = [raised |-> None, value |-> <<>>]

\* No operation outside pull and push is under way.
ExtParked ==
  /\ FindParked
  /\ StoreParked
  /\ RefsParked
  /\ DiffParked
  /\ LaterParked

\* gRPC status codes a failing RPC carries besides the NOT_FOUND the remote
\* answers for what it does not hold. "OK": the RPC reaches the remote.
RpcCodes == {"OK", "UNAVAILABLE", "RESOURCE_EXHAUSTED"}

\* ------------------------------------------------------------ batch requests

\* _CASBatchRead(remote) / _CASBatchUpdate(remote): an empty request.
NewBatch == [digests |-> <<>>, size |-> 0]

\* batch.add(digest): False when the request would exceed the negotiated
\* total size, else the digest is appended.
BatchFits(b, digest) ==
  b.size + size_bytes(digest) <= remote.max_batch_total_size_bytes

BatchAdd(b, digest) ==
  [digests |-> Append(b.digests, digest), size |-> b.size + size_bytes(digest)]

\* _CASBatchRead.send(missing_blobs): the prefix of the request answered
\* before the first NOT_FOUND that raises (no list given), else all of it.
BatchReadAnswered(b, collect) ==
  LET absent == {i \in 1..Len(b.digests) : b.digests[i] \notin remote_objects}
      stop == IF collect \/ absent = {} THEN Len(b.digests) + 1
              ELSE CHOOSE i \in absent : \A j \in absent : i <= j
  IN  [found |-> {b.digests[i] : i \in (1..(stop - 1)) \ absent},
       missing |-> IF collect
                   THEN SelectSeq(b.digests, LAMBDA d : d \notin remote_objects)
                   ELSE <<>>,
       raised |-> ~collect /\ absent # {}]

\* ----------------------------------------------------------------- add_object

\* add_object / _ensure_blob / _batch_download_complete: link the blobs into
\* objects/ of store s (FileExistsError is ignored).
add_object(objs, s, blobs) == [objs EXCEPT ![s] = @ \cup blobs]

\* set_ref(ref, tree): atomic replace of refs/heads/<ref>.
set_ref(hd, s, name, digest) == [hd EXCEPT ![s][name] = digest]

\* ------------------------------------------------------------ call and return

GrpcCodes == {"NOT_FOUND", "UNAVAILABLE", "RESOURCE_EXHAUSTED"}

Bool(b) == IF b THEN "True" ELSE "False"

\* Mutant of PullSurface: the test of line 234 inverted.
PullSurface_Inverted(kind) ==
  IF kind \in GrpcCodes
  THEN IF kind = "NOT_FOUND" THEN "CASCacheError" ELSE "False"
  ELSE IF kind = "BlobNotFound" THEN "False" ELSE kind

\* pull(), lines 233-239: what the except clauses make of an exception.
PullSurface(kind) ==
  IF kind \in GrpcCodes
  THEN IF kind # "NOT_FOUND" THEN "CASCacheError" ELSE "False"
  ELSE IF kind = "BlobNotFound" THEN "False" ELSE kind

\* push(), lines 308-312: RESOURCE_EXHAUSTED falls through to the return.
PushSurface(kind) ==
  IF kind \in GrpcCodes
  THEN IF kind # "RESOURCE_EXHAUSTED" THEN "CASCacheError"
       ELSE Bool(~skipped_remote)
  ELSE kind

Surface(kind) ==
  CASE call = "pull" -> PullSurface(kind)
    [] call = "push" -> PushSurface(kind)
    [] OTHER -> kind

Cleared ==
  /\ tree' = None
  /\ fetch_queue' = <<>>
  /\ fetch_next_queue' = <<>>
  /\ batch' = NewBatch
  /\ dirnodes' = <<>>
  /\ digests' = <<>>
  /\ missing_blobs' = <<>>
  /\ refs' = <<>>
  /\ skipped_remote' = TRUE

NoException == [kind |-> None, at |-> None]

\* push() ran to its return statement: every ref it was given counts as
\* pushed with the digest it resolved to.
Completed ==
  IF call = "push" /\ pc = "push" /\ refs = <<>>
  THEN [n \in RefNames |-> IF n \in Range(args) /\ heads[self][n] # None
                           THEN heads[self][n] ELSE last_push[n]]
  ELSE last_push

\* The call returns value.
Return(value) ==
  /\ pc' = "idle"
  /\ result' = value
  /\ exc' = NoException
  /\ last_push' = Completed
  /\ Cleared

\* The call ends as value (returned or raised) on the exception kind, raised
\* at the step named at.
RaiseAs(value, kind, at) ==
  /\ pc' = "idle"
  /\ result' = value
  /\ exc' = [kind |-> kind, at |-> at]
  /\ last_push' = last_push
  /\ Cleared

Raise(kind, at) == RaiseAs(Surface(kind), kind, at)

Enter(s, entry, given) ==
  /\ pc = "idle"
  /\ calls < MaxCalls
  /\ calls' = calls + 1
  /\ self' = s
  /\ call' = entry
  /\ args' = given
  /\ heads0' = heads[s]
  /\ remote_refs0' = remote_refs
  /\ updated' = {}
  /\ parsed' = {}
  /\ fetched' = {}
  /\ transfers' = {}
  /\ UNCHANGED ext

Transfer(fn, digest, via) == [fn |-> fn, digest |-> digest, via |-> via]

\* _ensure_blob(remote, digest), lines 737-749, with the outcome of the
\* ByteStream.Read it issues when the blob is not local.
ensure_blob(digest, code) ==
  IF digest \in objects[self]
  THEN [request |-> FALSE, error |-> None, blobs |-> {}]
  ELSE IF code # "OK"
  THEN [request |-> TRUE, error |-> code, blobs |-> {}]
  ELSE IF digest \notin remote_objects
  THEN [request |-> TRUE, error |-> "NOT_FOUND", blobs |-> {}]
  ELSE [request |-> TRUE, error |-> None, blobs |-> {digest}]

\* Mutant of TooLargeForBatch: > for >=.
TooLargeForBatch_Strict(digest, batch_supported) ==
  \/ size_bytes(digest) > remote.max_batch_total_size_bytes
  \/ ~batch_supported

\* Lines 777-778, 873-874: too large for a batch request, or no batch API.
TooLargeForBatch(digest, batch_supported) ==
  \/ size_bytes(digest) >= remote.max_batch_total_size_bytes
  \/ ~batch_supported

\* A step of _fetch_directory that goes on.
FetchStep(next, fq, fnq, b, dn) ==
  /\ pc' = next
  /\ fetch_queue' = fq
  /\ fetch_next_queue' = fnq
  /\ batch' = b
  /\ dirnodes' = dn
  /\ UNCHANGED <<tree, digests, missing_blobs, refs, skipped_remote,
                 result, exc, last_push>>

\* A step of fetch_blobs or send_blobs that goes on.
BlobsStep(next, b, dg, mb) ==
  /\ pc' = next
  /\ batch' = b
  /\ digests' = dg
  /\ missing_blobs' = mb
  /\ UNCHANGED <<tree, fetch_queue, fetch_next_queue, dirnodes, refs,
                 skipped_remote, result, exc, last_push>>

\* --------------------------------------------------------- _fetch_directory

\* Mutant of FetchDirectoryContinues: the deferred queue is not counted.
FetchDirectoryContinues_QueueOnly ==
  Len(fetch_queue) > 0

\* Line 818: the loop condition of _fetch_directory.
FetchDirectoryContinues ==
  Len(fetch_queue) + Len(fetch_next_queue) > 0

\* Lines 814-816: the queues and the batch _fetch_directory starts with.
FetchDirectoryEntry(dir_digest) ==
  /\ root' = dir_digest
  /\ fetch_queue' = <<dir_digest>>
  /\ fetch_next_queue' = <<>>
  /\ batch' = NewBatch
  /\ dirnodes' = <<>>
  /\ pc' = "fetch_directory"

\* Mutant of dirnode_digests: the file nodes are visited too.
dirnode_digests_WithFiles(directory) ==
  Digests(directory.files \o directory.directories)

\* Line 830: the digests of directory.directories, the nodes the loop visits.
dirnode_digests(directory) == Digests(directory.directories)

\* Mutant of Promoted: the deferred directories are left where they are.
Promoted_Forgotten(fq, fnq) ==
  [fetch_queue |-> fq, fetch_next_queue |-> fnq]

\* Lines 766-767 of _fetch_directory_batch: the directories of the completed
\* batch move to the processing queue.
Promoted(fq, fnq) ==
  [fetch_queue |-> fq \o fnq, fetch_next_queue |-> <<>>]

\* Lines 819-820 (and 761-768): the processing queue ran dry, complete the
\* pending batch and promote the deferred directories.
FetchDirectoryBatch(code) ==
  /\ pc = "fetch_directory"
  /\ FetchDirectoryContinues
  /\ fetch_queue = <<>>
  /\ code # "OK" => batch.digests # <<>>
  /\ LET answer == BatchReadAnswered(batch, FALSE)
     IN  IF code # "OK"
         THEN /\ Raise(code, "BatchReadBlobs")
              /\ UNCHANGED <<objects, fetched>>
         ELSE /\ objects' = add_object(objects, self, answer.found)
              /\ fetched' = fetched \cup (answer.found \ objects[self])
              /\ IF answer.raised
                 THEN Raise("BlobNotFound", "BatchReadBlobs")
                 ELSE LET q == Promoted(fetch_queue, fetch_next_queue)
                      IN  FetchStep("fetch_directory", q.fetch_queue,
                                    q.fetch_next_queue, NewBatch, dirnodes)
  /\ UNCHANGED <<heads, remote_objects, remote_refs, remote, self, call, ref,
                 heads0, remote_refs0, args, root, parsed, transfers, updated,
                 pushed, calls, ext>>

\* Lines 822-828: pop a directory, make sure its blob is local, parse it.
FetchDirectoryPop(code) ==
  /\ pc = "fetch_directory"
  /\ FetchDirectoryContinues
  /\ fetch_queue # <<>>
  /\ LET dir_digest == Head(fetch_queue)
         got == ensure_blob(dir_digest, code)
         directory == ParseDirectory(dir_digest)
         children == dirnode_digests(directory)
     IN  /\ code # "OK" => got.request
         /\ transfers' = IF got.request
                         THEN transfers \cup
                              {Transfer("_fetch_directory", dir_digest, "stream")}
                         ELSE transfers
         /\ IF got.error # None
            THEN /\ Raise(got.error, "ByteStream.Read")
                 /\ UNCHANGED <<objects, fetched, parsed>>
            ELSE /\ objects' = add_object(objects, self, got.blobs)
                 /\ fetched' = fetched \cup got.blobs
                 /\ parsed' = parsed \cup {dir_digest}
                 /\ FetchStep(IF children = <<>> THEN "fetch_directory"
                              ELSE "fetch_directory_node",
                              Tail(fetch_queue), fetch_next_queue, batch,
                              children)
  /\ UNCHANGED <<heads, remote_objects, remote_refs, remote, self, call, ref,
                 heads0, remote_refs0, args, root, updated, pushed, calls, ext>>

\* Lines 771-798 with recursive=True, for the next dirnode of line 830.
FetchDirectoryNode(code) ==
  /\ pc = "fetch_directory_node"
  /\ dirnodes # <<>>
  /\ LET digest == Head(dirnodes)
         in_local_cache == digest \in objects[self]
         next == IF Tail(dirnodes) = <<>> THEN "fetch_directory"
                 ELSE "fetch_directory_node"
         got == ensure_blob(digest, code)
         answer == BatchReadAnswered(batch, FALSE)
         fresh == NewBatch
     IN  IF in_local_cache
         THEN \* Skip download, already in local cache.
              /\ code = "OK"
              /\ FetchStep(next, Append(fetch_queue, digest),
                           fetch_next_queue, batch, Tail(dirnodes))
              /\ UNCHANGED <<objects, fetched, transfers>>
         ELSE IF TooLargeForBatch(digest, remote.batch_read_supported)
         THEN \* Download in independent request.
              /\ transfers' = transfers \cup
                   {Transfer("_fetch_directory_node", digest, "stream")}
              /\ IF got.error # None
                 THEN /\ Raise(got.error, "ByteStream.Read")
                      /\ UNCHANGED <<objects, fetched>>
                 ELSE /\ objects' = add_object(objects, self, got.blobs)
                      /\ fetched' = fetched \cup got.blobs
                      /\ FetchStep(next, Append(fetch_queue, digest),
                                   fetch_next_queue, batch, Tail(dirnodes))
         ELSE IF BatchFits(batch, digest)
         THEN /\ code = "OK"
              /\ transfers' = transfers \cup
                   {Transfer("_fetch_directory_node", digest, "batch")}
              /\ FetchStep(next, fetch_queue,
                           Append(fetch_next_queue, digest),
                           BatchAdd(batch, digest), Tail(dirnodes))
              /\ UNCHANGED <<objects, fetched>>
         ELSE \* Not enough space left: complete pending batch first.
              IF code # "OK"
              THEN /\ Raise(code, "BatchReadBlobs")
                   /\ UNCHANGED <<objects, fetched, transfers>>
              ELSE /\ objects' = add_object(objects, self, answer.found)
                   /\ fetched' = fetched \cup (answer.found \ objects[self])
                   /\ IF answer.raised
                      THEN /\ Raise("BlobNotFound", "BatchReadBlobs")
                           /\ UNCHANGED transfers
                      ELSE /\ transfers' = transfers \cup
                                {Transfer("_fetch_directory_node", digest,
                                          IF BatchFits(fresh, digest)
                                          THEN "batch" ELSE "dropped")}
                           /\ LET q == Promoted(fetch_queue,
                                                fetch_next_queue)
                              IN  FetchStep(next, q.fetch_queue,
                                            Append(q.fetch_next_queue, digest),
                                            IF BatchFits(fresh, digest)
                                            THEN BatchAdd(fresh, digest)
                                            ELSE fresh,
                                            Tail(dirnodes))
  /\ UNCHANGED <<heads, remote_objects, remote_refs, remote, self, call, ref,
                 heads0, remote_refs0, args, root, parsed, updated, pushed, calls, ext>>

\* Line 835: both queues are empty, fetch the final batch and return.
FetchDirectoryFinal(code) ==
  /\ pc = "fetch_directory"
  /\ ~FetchDirectoryContinues
  /\ code # "OK" => batch.digests # <<>>
  /\ LET answer == BatchReadAnswered(batch, FALSE)
     IN  IF code # "OK"
         THEN /\ Raise(code, "BatchReadBlobs")
              /\ UNCHANGED <<objects, fetched>>
         ELSE /\ objects' = add_object(objects, self, answer.found)
              /\ fetched' = fetched \cup (answer.found \ objects[self])
              /\ IF answer.raised
                 THEN Raise("BlobNotFound", "BatchReadBlobs")
                 ELSE IF call = "pull"
                 THEN /\ pc' = "pull_required_blobs"
                      /\ fetch_queue' =
                           Promoted(fetch_queue, fetch_next_queue).fetch_queue
                      /\ fetch_next_queue' =
                           Promoted(fetch_queue,
                                    fetch_next_queue).fetch_next_queue
                      /\ batch' = NewBatch
                      /\ UNCHANGED <<tree, dirnodes, digests, missing_blobs,
                                     refs, skipped_remote, result, exc,
                                     last_push>>
                 ELSE Return("returned")
  /\ UNCHANGED <<heads, remote_objects, remote_refs, remote, self, call, ref,
                 heads0, remote_refs0, args, root, parsed, transfers, updated,
                 pushed, calls, ext>>

\* --------------------------------------------------------------------- pull

\* Lines 211-222: pull(ref, remote) up to the call of _fetch_directory.
Pull(s, name, code) ==
  /\ Enter(s, "pull", <<name>>)
  /\ ref' = name
  /\ IF code # "OK"
     THEN RaiseAs(PullSurface(code), code, "GetReference") /\ root' = None
     ELSE IF remote_refs[name] = None
     THEN RaiseAs(PullSurface("NOT_FOUND"), "NOT_FOUND", "GetReference")
          /\ root' = None
     ELSE /\ tree' = remote_refs[name]
          /\ FetchDirectoryEntry(remote_refs[name])
          /\ result' = None
          /\ exc' = NoException
          /\ UNCHANGED <<digests, missing_blobs, refs, skipped_remote,
                         last_push>>
  /\ UNCHANGED <<world, pushed>>

\* Lines 225-228 and 866-870: the blobs of the tree missing locally, handed
\* to fetch_blobs when there are any.
PullRequiredBlobs ==
  /\ pc = "pull_required_blobs"
  /\ IF ~(DirectoryClosure(tree) \subseteq objects[self])
     THEN Raise("FileNotFoundError", "required_blobs_for_directory")
     ELSE LET required_blobs == required_blobs_for_directory(tree, {})
              missing == local_missing_blobs(objects[self], required_blobs)
          IN  IF missing # <<>>
              THEN BlobsStep("fetch_blobs", NewBatch, missing, <<>>)
              ELSE BlobsStep("pull_set_ref", batch, digests, missing_blobs)
  /\ UNCHANGED <<world, self, call, ref, heads0, remote_refs0, args, root,
                 parsed, fetched, transfers, updated, pushed, calls, ext>>

\* Lines 872-890: fetch_blobs, one digest of the loop.
FetchBlobsNode(code) ==
  /\ pc = "fetch_blobs"
  /\ digests # <<>>
  /\ LET digest == Head(digests)
         got == ensure_blob(digest, code)
         answer == BatchReadAnswered(batch, TRUE)
     IN  IF TooLargeForBatch(digest, remote.batch_read_supported)
         THEN /\ code # "OK" => got.request
              /\ transfers' = IF got.request
                              THEN transfers \cup
                                   {Transfer("fetch_blobs", digest, "stream")}
                              ELSE transfers
              /\ IF got.error = None
                 THEN /\ objects' = add_object(objects, self, got.blobs)
                      /\ BlobsStep("fetch_blobs", batch, Tail(digests),
                                   missing_blobs)
                 ELSE IF got.error = "NOT_FOUND"
                 THEN /\ BlobsStep("fetch_blobs", batch, Tail(digests),
                                   Append(missing_blobs, digest))
                      /\ UNCHANGED objects
                 ELSE /\ Raise("CASCacheError", "ByteStream.Read")
                      /\ UNCHANGED objects
         ELSE IF BatchFits(batch, digest)
         THEN /\ code = "OK"
              /\ transfers' = transfers \cup
                   {Transfer("fetch_blobs", digest, "batch")}
              /\ BlobsStep("fetch_blobs", BatchAdd(batch, digest),
                           Tail(digests), missing_blobs)
              /\ UNCHANGED objects
         ELSE \* Not enough space left: complete pending batch first.
              IF code # "OK"
              THEN /\ Raise(code, "BatchReadBlobs")
                   /\ UNCHANGED <<objects, transfers>>
              ELSE /\ objects' = add_object(objects, self, answer.found)
                   /\ transfers' = transfers \cup
                        {Transfer("fetch_blobs", digest, "batch")}
                   /\ BlobsStep("fetch_blobs", BatchAdd(NewBatch, digest),
                                Tail(digests),
                                missing_blobs \o answer.missing)
  /\ UNCHANGED <<heads, remote_objects, remote_refs, remote, self, call, ref,
                 heads0, remote_refs0, args, root, parsed, fetched, updated,
                 pushed, calls, ext>>

\* Lines 892-895: complete the last pending batch; fetch_blobs returns the
\* missing blobs to pull, line 228, which goes on to set_ref.
FetchBlobsFinal(code) ==
  /\ pc = "fetch_blobs"
  /\ digests = <<>>
  /\ code # "OK" => batch.digests # <<>>
  /\ LET answer == BatchReadAnswered(batch, TRUE)
     IN  IF code # "OK"
         THEN /\ Raise(code, "BatchReadBlobs")
              /\ UNCHANGED objects
         ELSE /\ objects' = add_object(objects, self, answer.found)
              /\ BlobsStep("pull_set_ref", NewBatch, digests,
                           missing_blobs \o answer.missing)
  /\ UNCHANGED <<heads, remote_objects, remote_refs, remote, self, call, ref,
                 heads0, remote_refs0, args, root, parsed, fetched, transfers,
                 updated, pushed, calls, ext>>

\* Lines 230-232: set_ref(ref, tree); return True.
PullSetRef ==
  /\ pc = "pull_set_ref"
  /\ heads' = set_ref(heads, self, ref, tree)
  /\ Return("True")
  /\ UNCHANGED <<objects, remote_objects, remote_refs, remote, self, call,
                 ref, heads0, remote_refs0, args, root, parsed, fetched,
                 transfers, updated, pushed, calls, ext>>

\* --------------------------------------------------------------------- push

\* Line 497: the size of a FindMissingBlobs request.
FindMissingGroup == 512

Min(a, b) == IF a <= b THEN a ELSE b

\* Mutant of grouper: islice(iterable, n) for islice(iterable, n - 1).
RECURSIVE grouper_OneMore(_, _)
grouper_OneMore(iterable, n) ==
  IF iterable = <<>> THEN <<>>
  ELSE <<SubSeq(iterable, 1, Min(n + 1, Len(iterable)))>>
         \o grouper_OneMore(SubSeq(iterable, n + 2, Len(iterable)), n)

\* _grouper(iterable, n), lines 934-940: consecutive groups of n.
RECURSIVE grouper(_, _)
grouper(iterable, n) ==
  IF iterable = <<>> THEN <<>>
  ELSE <<SubSeq(iterable, 1, Min(n, Len(iterable)))>>
         \o grouper(SubSeq(iterable, n + 1, Len(iterable)), n)

\* The values of a dict keyed by hash: first occurrences, in insertion order.
ByHash(ds) ==
  LET first == {i \in 1..Len(ds) : \A j \in 1..(i - 1) : ds[j] # ds[i]}
  IN  [k \in 1..Cardinality(first) |->
         ds[CHOOSE i \in first : Cardinality({j \in first : j <= i}) = k]]

\* The remote's answer to FindMissingBlobs(request).
FindMissingBlobs(blob_digests) ==
  SelectSeq(blob_digests, LAMBDA d : d \notin remote_objects)

\* remote_missing_blobs(remote, blobs), lines 494-510.
remote_missing_blobs(blobs) ==
  LET groups == grouper(blobs, FindMissingGroup)
  IN  ByHash(Flatten([g \in 1..Len(groups) |-> FindMissingBlobs(groups[g])]))

\* A step of push that goes on.
PushStep(next, t, rf, sk) ==
  /\ pc' = next
  /\ tree' = t
  /\ refs' = rf
  /\ skipped_remote' = sk
  /\ UNCHANGED <<fetch_queue, fetch_next_queue, dirnodes, result, exc,
                 last_push>>

\* Lines 278-280: push(refs, remote).
Push(s, given) ==
  /\ Enter(s, "push", given)
  /\ pc' = "push"
  /\ refs' = given
  /\ skipped_remote' = TRUE
  /\ ref' = None
  /\ result' = None
  /\ exc' = NoException
  /\ root' = None
  /\ UNCHANGED <<world, tree, fetch_queue, fetch_next_queue, batch, dirnodes,
                 digests, missing_blobs, last_push, pushed>>

\* Lines 281-298: resolve the next ref and ask the remote whether it already
\* names the same tree.
PushRef(code) ==
  /\ pc = "push"
  /\ refs # <<>>
  /\ ref' = Head(refs)
  /\ LET name == Head(refs)
         t == heads[self][name]
     IN  IF t = None
         THEN code = "OK" /\ Raise("CASCacheError", "resolve_ref")
         ELSE IF code # "OK"
         THEN Raise(code, "GetReference")
         ELSE IF remote_refs[name] = t
         THEN \* ref is already on the server with the same tree
              /\ PushStep("push", t, Tail(refs), skipped_remote)
              /\ UNCHANGED <<batch, digests, missing_blobs>>
         ELSE /\ PushStep("send_directory", t, refs, skipped_remote)
              /\ UNCHANGED <<batch, digests, missing_blobs>>
  /\ UNCHANGED <<world, self, call, heads0, remote_refs0, args, root, parsed,
                 fetched, transfers, updated, pushed, calls, ext>>

\* Lines 927-931 and 906: _send_directory asks the remote which blobs of the
\* tree it misses and hands them to send_blobs.
SendDirectory(code) ==
  /\ pc = "send_directory"
  /\ IF ~(DirectoryClosure(tree) \subseteq objects[self])
     THEN code = "OK"
          /\ Raise("FileNotFoundError", "required_blobs_for_directory")
     ELSE IF code # "OK"
     THEN Raise(code, "FindMissingBlobs")
     ELSE LET required_blobs == required_blobs_for_directory(tree, {})
          IN  BlobsStep("send_blobs", NewBatch,
                        remote_missing_blobs(required_blobs), missing_blobs)
  /\ UNCHANGED <<world, self, call, ref, heads0, remote_refs0, args, root,
                 parsed, fetched, transfers, updated, pushed, calls, ext>>

\* Lines 908-922: send_blobs, one digest of the loop.
SendBlobsNode(code) ==
  /\ pc = "send_blobs"
  /\ digests # <<>>
  /\ LET digest == Head(digests)
     IN  IF digest \notin objects[self]
         THEN /\ code = "OK"
              /\ Raise("FileNotFoundError", "open")
              /\ UNCHANGED <<remote_objects, transfers>>
         ELSE IF TooLargeForBatch(digest, remote.batch_update_supported)
         THEN \* Upload in independent request.
              /\ transfers' = transfers \cup
                   {Transfer("send_blobs", digest, "stream")}
              /\ IF code # "OK"
                 THEN Raise(code, "ByteStream.Write")
                      /\ UNCHANGED remote_objects
                 ELSE /\ remote_objects' = remote_objects \cup {digest}
                      /\ BlobsStep("send_blobs", batch, Tail(digests),
                                   missing_blobs)
         ELSE IF BatchFits(batch, digest)
         THEN /\ code = "OK"
              /\ transfers' = transfers \cup
                   {Transfer("send_blobs", digest, "batch")}
              /\ BlobsStep("send_blobs", BatchAdd(batch, digest),
                           Tail(digests), missing_blobs)
              /\ UNCHANGED remote_objects
         ELSE \* Not enough space left: complete pending batch first.
              IF code # "OK"
              THEN /\ Raise(code, "BatchUpdateBlobs")
                   /\ UNCHANGED <<remote_objects, transfers>>
              ELSE /\ remote_objects' = remote_objects \cup Range(batch.digests)
                   /\ transfers' = transfers \cup
                        {Transfer("send_blobs", digest, "batch")}
                   /\ BlobsStep("send_blobs", BatchAdd(NewBatch, digest),
                                Tail(digests), missing_blobs)
  /\ UNCHANGED <<objects, heads, remote_refs, remote, self, call, ref, heads0,
                 remote_refs0, args, root, parsed, fetched, updated, pushed, calls, ext>>

\* Mutant of SendBlobsFinal: the final batch is never sent.
SendBlobsFinal_NoSend(code) ==
  /\ pc = "send_blobs"
  /\ digests = <<>>
  /\ code = "OK"
  /\ BlobsStep("update_reference", NewBatch, digests, missing_blobs)
  /\ UNCHANGED <<world, self, call, ref, heads0, remote_refs0, args, root,
                 parsed, fetched, transfers, updated, pushed, calls, ext>>

\* Lines 924-925: send the final batch; _send_directory returns to push.
SendBlobsFinal(code) ==
  /\ pc = "send_blobs"
  /\ digests = <<>>
  /\ code # "OK" => batch.digests # <<>>
  /\ IF code # "OK"
     THEN Raise(code, "BatchUpdateBlobs") /\ UNCHANGED remote_objects
     ELSE /\ remote_objects' = remote_objects \cup Range(batch.digests)
          /\ BlobsStep("update_reference", NewBatch, digests, missing_blobs)
  /\ UNCHANGED <<objects, heads, remote_refs, remote, self, call, ref, heads0,
                 remote_refs0, args, root, parsed, fetched, transfers, updated,
                 pushed, calls, ext>>

\* Lines 302-307: UpdateReference, then skipped_remote = False.
UpdateReference(code) ==
  /\ pc = "update_reference"
  /\ IF code # "OK"
     THEN Raise(code, "UpdateReference")
          /\ UNCHANGED <<remote_refs, updated, pushed>>
     ELSE /\ remote_refs' = [remote_refs EXCEPT ![ref] = tree]
          /\ updated' = updated \cup {ref}
          /\ pushed' = pushed \cup {ref}
          /\ PushStep("push", tree, Tail(refs), FALSE)
          /\ UNCHANGED <<batch, digests, missing_blobs>>
  /\ UNCHANGED <<objects, heads, remote_objects, remote, self, call, ref,
                 heads0, remote_refs0, args, root, parsed, fetched, transfers,
                 calls, ext>>

\* Line 312: return not skipped_remote.
PushReturn ==
  /\ pc = "push"
  /\ refs = <<>>
  /\ Return(Bool(~skipped_remote))
  /\ UNCHANGED <<world, self, call, ref, heads0, remote_refs0, args, root,
                 parsed, fetched, transfers, updated, pushed, calls, ext>>

\* ------------------------------------------------------------ specification

\* The blobs of the tree digest names.
TreeBlobs(digest) == Range(required_blobs_for_directory(digest, {}))

\* The stores that push and the stores that pull.
Pushers == {"A"}
Pullers == {"B"}
\* The lists of refs handed to push().
PushLists == {<<>>, <<"n1">>, <<"n1", "n2">>, <<"n2", "n1">>}
\* The negotiated max_batch_total_size_bytes of the explored remotes.
BatchSizes == 2..MaxBatchCap

\* Store A holds two complete trees under its two refs; store B is empty; the
\* remote names no tree or one under "n1", and has lost at most one of its
\* blobs.
Init ==
  /\ objects = [s \in Stores |-> IF s = "A" THEN Hash ELSE {}]
  /\ heads = [s \in Stores |->
                [n \in RefNames |->
                   IF s = "A" THEN (IF n = "n1" THEN "r1" ELSE "r2") ELSE None]]
  /\ \E d \in Roots \cup {None} :
       /\ remote_refs = [n \in RefNames |-> IF n = "n1" THEN d ELSE None]
       /\ \E lost \in {{}} \cup {{b} : b \in Hash} :
            remote_objects = (IF d = None THEN {} ELSE TreeBlobs(d)) \ lost
  /\ remote \in [max_batch_total_size_bytes : BatchSizes,
                 batch_read_supported : BOOLEAN,
                 batch_update_supported : BOOLEAN]
  /\ pc = "idle"
  /\ self = "A"
  /\ call = None
  /\ ref = None
  /\ tree = None
  /\ fetch_queue = <<>>
  /\ fetch_next_queue = <<>>
  /\ batch = NewBatch
  /\ dirnodes = <<>>
  /\ digests = <<>>
  /\ missing_blobs = <<>>
  /\ refs = <<>>
  /\ skipped_remote = TRUE
  /\ result = None
  /\ heads0 = heads["A"]
  /\ remote_refs0 = remote_refs
  /\ args = <<>>
  /\ root = None
  /\ parsed = {}
  /\ fetched = {}
  /\ transfers = {}
  /\ updated = {}
  /\ pushed = {}
  /\ last_push = [n \in RefNames |-> None]
  /\ calls = 0
  /\ exc = NoException
  /\ ExtParked

Next ==
  \/ \E s \in Pullers, name \in RefNames, code \in RpcCodes : Pull(s, name, code)
  \/ \E s \in Pushers, given \in PushLists : Push(s, given)
  \/ \E code \in RpcCodes : FetchDirectoryBatch(code)
  \/ \E code \in RpcCodes : FetchDirectoryPop(code)
  \/ \E code \in RpcCodes : FetchDirectoryNode(code)
  \/ \E code \in RpcCodes : FetchDirectoryFinal(code)
  \/ PullRequiredBlobs
  \/ \E code \in RpcCodes : FetchBlobsNode(code)
  \/ \E code \in RpcCodes : FetchBlobsFinal(code)
  \/ PullSetRef
  \/ \E code \in RpcCodes : PushRef(code)
  \/ \E code \in RpcCodes : SendDirectory(code)
  \/ \E code \in RpcCodes : SendBlobsNode(code)
  \/ \E code \in RpcCodes : SendBlobsFinal(code)
  \/ \E code \in RpcCodes : UpdateReference(code)
  \/ PushReturn

Spec == Init /\ [][Next]_vars

\* _fetch_directory on its own: store B, holding any of the directory blobs,
\* stands right after line 816 with the root in fetch_queue; the remote holds
\* every blob but at most one lost directory.
DirectoryBlobs == UNION {DirectoryClosure(d) : d \in Roots}

InitFetch ==
  /\ objects \in [Stores -> SUBSET DirectoryBlobs]
  /\ objects["A"] = {}
  /\ heads = [s \in Stores |-> [n \in RefNames |-> None]]
  /\ remote_refs = [n \in RefNames |-> None]
  /\ \E lost \in {{}} \cup {{b} : b \in DirectoryBlobs} :
       remote_objects = Hash \ lost
  /\ remote \in [max_batch_total_size_bytes : BatchSizes,
                 batch_read_supported : BOOLEAN,
                 batch_update_supported : {TRUE}]
  /\ pc = "fetch_directory"
  /\ self = "B"
  /\ call = "fetch_directory"
  /\ ref = None
  /\ tree = None
  /\ root \in DirectoryBlobs
  /\ fetch_queue = <<root>>
  /\ fetch_next_queue = <<>>
  /\ batch = NewBatch
  /\ dirnodes = <<>>
  /\ digests = <<>>
  /\ missing_blobs = <<>>
  /\ refs = <<>>
  /\ skipped_remote = TRUE
  /\ result = None
  /\ heads0 = heads["B"]
  /\ remote_refs0 = remote_refs
  /\ args = <<>>
  /\ parsed = {}
  /\ fetched = {}
  /\ transfers = {}
  /\ updated = {}
  /\ pushed = {}
  /\ last_push = [n \in RefNames |-> None]
  /\ calls = MaxCalls
  /\ exc = NoException
  /\ ExtParked

NextFetch ==
  \/ \E code \in RpcCodes : FetchDirectoryBatch(code)
  \/ \E code \in RpcCodes : FetchDirectoryPop(code)
  \/ \E code \in RpcCodes : FetchDirectoryNode(code)
  \/ \E code \in RpcCodes : FetchDirectoryFinal(code)

\* The call runs on: a sequential program takes its next step.
SpecFetch == InitFetch /\ [][NextFetch]_vars /\ WF_vars(NextFetch)

\* ------------------------------------------------------------------ claims

PullReturned == pc = "idle" /\ call = "pull"
PushReturned == pc = "idle" /\ call = "push"

\* The remote names ref and holds every Directory of its tree, but a blob the
\* tree requires is neither on the remote nor in the pulling store.
FileBlobNotFound ==
  /\ remote_refs[ref] # None
  /\ DirectoryClosure(remote_refs[ref]) \subseteq remote_objects
  /\ \E b \in TreeBlobs(remote_refs[ref]) :
       b \notin remote_objects /\ b \notin objects[self]

\* C1: a pull that finds the ref and its directory tree on the remote but
\* gets NOT_FOUND for a required file blob returns False and leaves the
\* local refs as they were.
C1_PullMissingBlobReturnsFalse ==
  (PullReturned /\ result \in {"True", "False"} /\ FileBlobNotFound)
    => (result = "False" /\ heads[self] = heads0)

\* C2: when GetReference fails, pull returns False for NOT_FOUND and raises
\* a CAS error for every other code, and the local refs stay as they were.
C2_PullGetReferenceError ==
  (PullReturned /\ exc.at = "GetReference")
    => /\ heads[self] = heads0
       /\ exc.kind = "NOT_FOUND" => result = "False"
       /\ exc.kind # "NOT_FOUND" => result = "CASCacheError"

\* C2 witness: GetReference failed with another code in a store that
\* already had a ref.
C2_Witness ==
  /\ PullReturned
  /\ exc.at = "GetReference"
  /\ exc.kind = "UNAVAILABLE"
  /\ result = "CASCacheError"
  /\ \E n \in RefNames : heads0[n] # None

\* C3: replication parity. After a completed push of a ref, a pull of that
\* ref that returns True leaves the ref resolving to the pushed digest and
\* every blob required by it in the local store.
C3_ReplicationParity ==
  (PullReturned /\ result = "True" /\ last_push[ref] # None)
    => /\ heads[self][ref] = last_push[ref]
       /\ TreeBlobs(last_push[ref]) \subseteq objects[self]

\* C4: UpdateReference is issued only once the remote holds every blob of
\* the tree, so every remote ref written by push names a tree whose
\* required blobs are all on the remote.
C4_UpdateReferenceAfterBlobs ==
  /\ pc = "update_reference" => TreeBlobs(tree) \subseteq remote_objects
  /\ \A n \in pushed :
       /\ remote_refs[n] # None
       /\ TreeBlobs(remote_refs[n]) \subseteq remote_objects

\* C4 witness: push is about to update a ref after uploading blobs the
\* remote reported missing, by batch and by stream.
C4_Witness ==
  /\ pc = "update_reference"
  /\ \E t \in transfers : t.fn = "send_blobs" /\ t.via = "batch"
  /\ \E t \in transfers : t.fn = "send_blobs" /\ t.via = "stream"
  /\ remote_refs0[ref] = None

\* Every ref push was given was on the remote with the same digest.
NoPushRequired ==
  \A n \in Range(args) : heads0[n] # None /\ remote_refs0[n] = heads0[n]

\* C5: push returns True iff it updated a remote ref, returns False only
\* when no push was required, and a ref already on the remote with the
\* same digest causes no upload and no UpdateReference.
C5_PushReturnValue ==
  (PushReturned /\ result \in {"True", "False"})
    => /\ result = "True" <=> updated # {}
       /\ result = "False" => NoPushRequired
       /\ \A n \in Range(args) :
            (heads0[n] # None /\ remote_refs0[n] = heads0[n]) => n \notin updated
       /\ NoPushRequired => transfers = {}

\* C6: an RPC of push that fails (RESOURCE_EXHAUSTED or any other code but
\* the NOT_FOUND of the GetReference pre-check) ends push with an error; it
\* does not return normally.
C6_PushRpcErrorSurfaces ==
  (PushReturned /\ exc.kind \in GrpcCodes) => result = "CASCacheError"

\* C7: _fetch_directory terminates: it returns, or raises, with no
\* directory left in its queues.
C7_FetchDirectoryTerminates == <>(pc = "idle")

\* C7 witness: a run of _fetch_directory over the tree with a repeated
\* digest that returned after batching, streaming and skipping directories.
C7_Witness ==
  /\ pc = "idle"
  /\ result = "returned"
  /\ root = "r1"
  /\ \E t \in transfers : t.fn = "_fetch_directory_node" /\ t.via = "batch"
  /\ \E t \in transfers : t.fn = "_fetch_directory_node" /\ t.via = "stream"
  /\ fetched # DirectoryClosure(root)

\* C8: when _fetch_directory returns normally every Directory of the closure
\* of the root is in the local store, and a directory is parsed only when
\* its blob is local.
C8_DirectoryClosureFetched ==
  /\ parsed \subseteq objects[self]
  /\ (pc = "idle" /\ result = "returned")
       => DirectoryClosure(root) \subseteq objects[self]

\* C8 witness: _fetch_directory returned having fetched a three-level tree
\* into a store that held none of it.
C8_Witness ==
  /\ pc = "idle"
  /\ result = "returned"
  /\ root = "r1"
  /\ fetched = DirectoryClosure("r1")

\* C9: _fetch_directory requests and stores only Directory blobs of the
\* closure of its root, never a blob referenced only as a file.
C9_OnlyDirectoriesFetched ==
  /\ fetched \subseteq DirectoryClosure(root)
  /\ \A t \in transfers : t.digest \in DirectoryClosure(root)

\* C9 witness: _fetch_directory returned for a tree whose files include the
\* empty blob, which it did not fetch.
C9_Witness ==
  /\ pc = "idle"
  /\ result = "returned"
  /\ root = "r2"
  /\ fetched = {"r2", "d1"}
  /\ "e" \notin objects[self]

BatchSupported(fn) ==
  IF fn = "send_blobs" THEN remote.batch_update_supported
  ELSE remote.batch_read_supported

\* C10: in fetch_blobs, _fetch_directory_node and send_blobs a blob at or
\* above max_batch_total_size_bytes, or any blob when batching is not
\* supported, goes by byte stream and never into a batch; a smaller blob,
\* when batching is supported, goes into a batch only.
C10_BatchThreshold ==
  \A t \in transfers :
    t.fn \in {"fetch_blobs", "_fetch_directory_node", "send_blobs"}
      => /\ t.via \in {"batch", "stream"}
         /\ t.via = "stream" <=>
              \/ size_bytes(t.digest) >= remote.max_batch_total_size_bytes
              \/ ~BatchSupported(t.fn)

\* C10 witness: one call of fetch_blobs moved a blob by batch and a blob of
\* exactly the threshold size by stream.
C10_Witness ==
  /\ remote.batch_read_supported
  /\ \E t \in transfers : t.fn = "fetch_blobs" /\ t.via = "batch"
  /\ \E t \in transfers :
       /\ t.fn = "fetch_blobs" /\ t.via = "stream"
       /\ size_bytes(t.digest) = remote.max_batch_total_size_bytes

\* ------------------------------------------------- remote_missing_blobs alone

\* pull and push are not running and cannot start; the remote's blobs are
\* left to the specification.
CasParked ==
  /\ objects = [s \in Stores |-> {}]
  /\ heads = [s \in Stores |-> [n \in RefNames |-> None]]
  /\ remote_refs = [n \in RefNames |-> None]
  /\ remote = [max_batch_total_size_bytes |-> 2,
               batch_read_supported |-> TRUE,
               batch_update_supported |-> TRUE]
  /\ pc = "idle"
  /\ self = "A"
  /\ call = None
  /\ ref = None
  /\ tree = None
  /\ fetch_queue = <<>>
  /\ fetch_next_queue = <<>>
  /\ batch = NewBatch
  /\ dirnodes = <<>>
  /\ digests = <<>>
  /\ missing_blobs = <<>>
  /\ refs = <<>>
  /\ skipped_remote = TRUE
  /\ result = None
  /\ heads0 = [n \in RefNames |-> None]
  /\ remote_refs0 = [n \in RefNames |-> None]
  /\ args = <<>>
  /\ root = None
  /\ parsed = {}
  /\ fetched = {}
  /\ transfers = {}
  /\ updated = {}
  /\ pushed = {}
  /\ last_push = [n \in RefNames |-> None]
  /\ calls = MaxCalls
  /\ exc = NoException

cas == <<world, frame, history>>

\* The hashes of the world in a fixed order.
HashSeq == <<"e", "f1", "f2", "f3", "d1", "d2", "r1", "r2">>

\* The lengths of the explored inputs: around every multiple of the group
\* size.
FindLengths ==
  {n \in {k * FindMissingGroup + j : k \in 0..MaxGroups, j \in {-1, 0, 1}} :
     n >= 0}

\* The explored inputs: lists of digests with repetitions, within a group
\* and across groups.
BlobLists ==
  {[i \in 1..n |-> HashSeq[((a * i + b) % Len(HashSeq)) + 1]] :
     n \in FindLengths, a \in {0, 1, 3}, b \in {0, 5}}

\* What the explored remotes hold.
RemoteHoldings == {{}, Hash, {"e", "f1", "d1"}, {"f2", "r2"}}

\* remote_missing_blobs(remote, blobs) stands at line 497, before the first
\* group is taken.
InitFind ==
  /\ CasParked
  /\ remote_objects \in RemoteHoldings
  /\ find_pc = "loop"
  /\ given_blobs \in BlobLists
  /\ blobs_iter = given_blobs
  /\ requests = <<>>
  /\ missing_dict = <<>>
  /\ find_result = FindReturned(<<>>)
  /\ StoreParked
  /\ RefsParked
  /\ DiffParked
  /\ LaterParked

\* Lines 497-508: one turn of the loop, the next group of _grouper sent as
\* one FindMissingBlobs request and its response merged into the dict.
FindMissingBlobsGroup(code) ==
  /\ find_pc = "loop"
  /\ blobs_iter # <<>>
  /\ LET required_blobs_group == Head(grouper(blobs_iter, FindMissingGroup))
         request == required_blobs_group
         response == FindMissingBlobs(request)
     IN  /\ blobs_iter' = SubSeq(blobs_iter, Len(required_blobs_group) + 1,
                                 Len(blobs_iter))
         /\ requests' = Append(requests, request)
         /\ IF code # "OK"
            THEN /\ find_pc' = "idle"
                 /\ find_result' = FindRaised(code)
                 /\ UNCHANGED missing_dict
            ELSE /\ missing_dict' = ByHash(missing_dict \o response)
                 /\ UNCHANGED <<find_pc, find_result>>
  /\ UNCHANGED <<cas, given_blobs, store, refdiff>>

\* Line 510: return missing_blobs.values().
RemoteMissingReturn ==
  /\ find_pc = "loop"
  /\ blobs_iter = <<>>
  /\ find_pc' = "idle"
  /\ find_result' = FindReturned(missing_dict)
  /\ UNCHANGED <<cas, given_blobs, blobs_iter, requests, missing_dict, store,
                 refdiff>>

NextFind ==
  \/ \E code \in RpcCodes : FindMissingBlobsGroup(code)
  \/ RemoteMissingReturn

SpecFind == InitFind /\ [][NextFind]_vars

\* C11: remote_missing_blobs sends the input in FindMissingBlobs requests of
\* at most 512 digests, every input digest in exactly one request and in
\* input order, and returns exactly the digests some response reported
\* missing, each hash once.
C11_FindMissingGroups ==
  /\ \A i \in 1..Len(requests) : Len(requests[i]) \in 1..512
  /\ Flatten(requests) \o blobs_iter = given_blobs
  /\ (find_pc = "idle" /\ find_result.raised = None)
       => /\ Flatten(requests) = given_blobs
          /\ Range(find_result.value) =
               {d \in Range(given_blobs) : d \notin remote_objects}
          /\ Cardinality(Range(find_result.value)) = Len(find_result.value)

\* C11 witness: an input of two full groups and one digest more went out in
\* three requests, with a hash reported missing by more than one response
\* and another hash held by the remote.
C11_Witness ==
  /\ find_pc = "idle"
  /\ find_result.raised = None
  /\ Len(given_blobs) = 2 * 512 + 1
  /\ Len(requests) = 3
  /\ Len(requests[3]) = 1
  /\ \E d \in Range(find_result.value) :
       d \in Range(requests[1]) /\ d \in Range(requests[2])
  /\ \E d \in Range(given_blobs) : d \in remote_objects

\* ------------------------------------------- the object store, file by file

\* The byte sequences the workers insert: a blob and its prefixes.
Contents == {<<>>, <<1>>, <<1, 2>>}

\* hashlib.sha256(b).hexdigest(), shortened to four hex characters.
SHA256(b) ==
  CASE b = <<>>     -> <<"e", "3", "b", "0">>
    [] b = <<1>>    -> <<"4", "b", "f", "5">>
    [] b = <<1, 2>> -> <<"e", "3", "a", "9">>

\* objpath(digest), line 325, below casdir/objects: <hash[:2]>/<hash[2:]>.
objpath(digest) ==
  <<SubSeq(digest.hash, 1, 2), SubSeq(digest.hash, 3, Len(digest.hash))>>

\* os.path.dirname(objpath)
dirname(path) == path[1]

\* The Digest that names the content b.
DigestOf(b) == [hash |-> SHA256(b), size_bytes |-> Len(b)]

Truncated(b) == IF b = <<>> THEN b ELSE SubSeq(b, 1, Len(b) - 1)

\* What a remote sends for the blob of content b: the blob, or less of it.
Deliveries(b) == {b, Truncated(b)}

\* objects/ as a reader sees it: the paths and the bytes behind them.
StoreView == {<<f[1], inodes[f[2]]>> : f \in obj_files}
ObjPaths == {f[1] : f \in obj_files}

\* The call of worker w begins and enters _temporary_object(): a fresh,
\* empty, named file in tmpdir.
Begin(w, op, source, want) ==
  /\ wpc[w] = "idle"
  /\ serial < MaxInserts
  /\ serial' = serial + 1
  /\ inodes' = [inodes EXCEPT ![serial + 1] = <<>>]
  /\ tmp_names' = tmp_names \cup {serial + 1}
  /\ wloc' = [wloc EXCEPT ![w] = [op |-> op, source |-> source, want |-> want,
                                  tmp |-> serial + 1, digest |-> NoDigest,
                                  error |-> None]]
  /\ wpc' = [wpc EXCEPT ![w] = "write"]
  /\ wprev' = [wprev EXCEPT ![w] = wret[w]]
  /\ wret' = [wret EXCEPT ![w] = NoReturn]
  /\ store0' = [store0 EXCEPT ![w] = StoreView]
  /\ UNCHANGED <<obj_dirs, obj_files>>

\* add_object(buffer=buffer), lines 342-359.
AddObject(w, buffer) ==
  /\ Begin(w, "add_object", buffer, NoDigest)
  /\ UNCHANGED <<cas, find, refdiff>>

\* _ensure_blob(remote, digest), lines 737-744, for the digest of content b
\* when the remote sends data: return at once when the object exists.
EnsureBlob(w, b, data) ==
  /\ IF objpath(DigestOf(b)) \in ObjPaths
     THEN /\ wpc[w] = "idle"
          /\ serial < MaxInserts
          /\ data = b
          /\ serial' = serial + 1
          /\ wprev' = [wprev EXCEPT ![w] = wret[w]]
          /\ wret' = [wret EXCEPT ![w] =
                        [op |-> "_ensure_blob", source |-> b,
                         want |-> DigestOf(b), digest |-> DigestOf(b),
                         outcome |-> "ok"]]
          /\ store0' = [store0 EXCEPT ![w] = StoreView]
          /\ UNCHANGED <<obj_dirs, obj_files, inodes, tmp_names, wpc, wloc>>
     ELSE Begin(w, "_ensure_blob", data, DigestOf(b))
  /\ UNCHANGED <<cas, find, refdiff>>

\* _batch_download_complete, lines 752-753, for one (digest, data) of the
\* batch response.
BatchDownloadComplete(w, b, data) ==
  /\ Begin(w, "_batch_download_complete", data, DigestOf(b))
  /\ UNCHANGED <<cas, find, refdiff>>

\* tmp.write(buffer), f.write(data), remote._fetch_blob(digest, f): the next
\* byte reaches the temporary file.
WriteChunk(w) ==
  /\ wpc[w] = "write"
  /\ LET l == wloc[w]
     IN  /\ Len(inodes[l.tmp]) < Len(l.source)
         /\ inodes' = [inodes EXCEPT ![l.tmp] =
                         Append(@, l.source[Len(@) + 1])]
  /\ UNCHANGED <<cas, find, refdiff, obj_dirs, obj_files, tmp_names, wpc, wloc,
                 wret,
                 wprev, store0, serial>>

\* Mutant of Flushed: no flush before the file is linked.
Flushed_Skipped(w) == TRUE

\* tmp.flush(), lines 371 and 755: every byte written is in the file.
Flushed(w) == inodes[wloc[w].tmp] = wloc[w].source

\* Mutant of Hashed: only the first chunk of the file is read.
Hashed_FirstChunk(l, file) ==
  IF l.op = "add_object" THEN l.source ELSE SubSeq(file, 1, Min(1, Len(file)))

\* Lines 357-369: what the hash is fed with, the chunks read from path when
\* linking directly, else the buffer.
Hashed(l, file) ==
  IF l.op = "add_object" THEN l.source ELSE file

\* Lines 373-378: the digest from the hash and the size of the file, and
\* the directory of the object path made.
AddObjectDigest(w) ==
  /\ wpc[w] = "write"
  /\ Flushed(w)
  /\ LET l == wloc[w]
         digest == [hash |-> SHA256(Hashed(l, inodes[l.tmp])),
                    size_bytes |-> Len(inodes[l.tmp])]
     IN  /\ wloc' = [wloc EXCEPT ![w].digest = digest]
         /\ obj_dirs' = obj_dirs \cup {dirname(objpath(digest))}
  /\ wpc' = [wpc EXCEPT ![w] = "link"]
  /\ UNCHANGED <<cas, find, refdiff, obj_files, inodes, tmp_names, wret, wprev,
                 store0,
                 serial>>

\* Mutant of FileExistsHandled: the OSError clause catches it first.
FileExistsHandled_Raised == "CASCacheError"

\* Lines 381-383: except FileExistsError: pass.
FileExistsHandled == None

\* Line 379: os.link(tmp.name, objpath).
AddObjectLink(w) ==
  /\ wpc[w] = "link"
  /\ LET l == wloc[w]
         path == objpath(l.digest)
     IN  IF path \in ObjPaths
         THEN /\ wloc' = [wloc EXCEPT ![w].error = FileExistsHandled]
              /\ UNCHANGED obj_files
         ELSE /\ obj_files' = obj_files \cup {<<path, l.tmp>>}
              /\ UNCHANGED wloc
  /\ wpc' = [wpc EXCEPT ![w] = "exit"]
  /\ UNCHANGED <<cas, find, refdiff, obj_dirs, inodes, tmp_names, wret, wprev,
                 store0,
                 serial>>

\* The temporary file is closed and its name removed; lines 389, 747-749
\* and 757-758: add_object returns the digest, its callers assert the hash.
AddObjectExit(w) ==
  /\ wpc[w] = "exit"
  /\ LET l == wloc[w]
         linked == \E f \in obj_files : f[2] = l.tmp
     IN  /\ tmp_names' = tmp_names \ {l.tmp}
         /\ inodes' = [inodes EXCEPT ![l.tmp] =
                         IF linked THEN l.source ELSE <<>>]
         /\ wret' = [wret EXCEPT ![w] =
                       [op |-> l.op, source |-> l.source, want |-> l.want,
                        digest |-> l.digest,
                        outcome |->
                          IF l.error # None THEN l.error
                          ELSE IF l.op # "add_object"
                                  /\ l.digest.hash # l.want.hash
                          THEN "AssertionError"
                          ELSE "ok"]]
  /\ wloc' = [wloc EXCEPT ![w] = NoLocals]
  /\ wpc' = [wpc EXCEPT ![w] = "idle"]
  /\ UNCHANGED <<cas, find, refdiff, obj_dirs, obj_files, wprev, store0,
                 serial>>

\* A new CASCache: empty objects/ and tmp/.
InitStore ==
  /\ CasParked
  /\ remote_objects = {}
  /\ FindParked
  /\ StoreParked
  /\ RefsParked
  /\ DiffParked
  /\ LaterParked

StoreStep(w) ==
  \/ \E b \in Contents : AddObject(w, b)
  \/ \E b \in Contents : \E data \in Deliveries(b) : EnsureBlob(w, b, data)
  \/ \E b \in Contents : \E data \in Deliveries(b) :
       BatchDownloadComplete(w, b, data)
  \/ WriteChunk(w)
  \/ AddObjectDigest(w)
  \/ AddObjectLink(w)
  \/ AddObjectExit(w)

\* One caller, one call after the other.
NextInsert == StoreStep("w1")

SpecInsert == InitStore /\ [][NextInsert]_vars

\* The workers of Workers, interleaved at every step.
NextStore == \E w \in Workers : StoreStep(w)

SpecStore == InitStore /\ [][NextStore]_vars

\* C12: insertion is idempotent: add_object(b) followed by add_object(b)
\* returns the same digest both times, the second call succeeds silently and
\* leaves objects/ as the first call left it, with exactly one object file
\* at objpath(digest).
C12_InsertIdempotent ==
  \A w \in Workers :
    (/\ wpc[w] = "idle"
     /\ wret[w].op = "add_object"
     /\ wprev[w].op = "add_object"
     /\ wprev[w].outcome = "ok"
     /\ wprev[w].source = wret[w].source)
      => /\ wret[w].outcome = "ok"
         /\ wret[w].digest = wprev[w].digest
         /\ StoreView = store0[w]
         /\ Cardinality({f \in obj_files : f[1] = objpath(wret[w].digest)}) = 1
         /\ <<objpath(wret[w].digest), wret[w].source>> \in StoreView

\* C12 witness: the same two bytes were inserted twice in a row.
C12_Witness ==
  /\ wpc["w1"] = "idle"
  /\ wret["w1"].op = "add_object"
  /\ wprev["w1"].op = "add_object"
  /\ wret["w1"].source = <<1, 2>>
  /\ wprev["w1"].source = <<1, 2>>
  /\ wret["w1"].outcome = "ok"

\* The call inserts the content its digest names (add_object always does).
Honest(r) ==
  r.op # None /\ (r.op = "add_object" \/ r.want = DigestOf(r.source))

\* C13: for every interleaving of workers inserting the same content through
\* add_object or _ensure_blob, an object path never holds part of the
\* content, and once the workers are done all of them succeeded with the
\* same digest and exactly one object file holds the content.
C13_ConcurrentInsert ==
  /\ \A b \in Contents :
       \A f \in obj_files :
         f[1] = objpath(DigestOf(b)) => inodes[f[2]] = b
  /\ \A w1, w2 \in Workers :
       (/\ w1 # w2
        /\ wpc[w1] = "idle" /\ wpc[w2] = "idle"
        /\ Honest(wret[w1]) /\ Honest(wret[w2])
        /\ wret[w1].source = wret[w2].source)
         => /\ wret[w1].outcome = "ok"
            /\ wret[w2].outcome = "ok"
            /\ wret[w1].digest = wret[w2].digest
            /\ Cardinality({f \in obj_files :
                              inodes[f[2]] = wret[w1].source}) = 1
            /\ <<objpath(wret[w1].digest), wret[w1].source>> \in StoreView

\* C13 witness: two workers that both began on an empty store, one in
\* add_object and one in _ensure_blob, inserted the same two bytes.
C13_Witness ==
  /\ wpc["w1"] = "idle" /\ wpc["w2"] = "idle"
  /\ wret["w1"].op = "add_object"
  /\ wret["w2"].op = "_ensure_blob"
  /\ wret["w1"].source = <<1, 2>>
  /\ wret["w2"].source = <<1, 2>>
  /\ Honest(wret["w2"])
  /\ store0["w1"] = {} /\ store0["w2"] = {}
  /\ wret["w1"].outcome = "ok" /\ wret["w2"].outcome = "ok"

\* C14: add_object returns hash = SHA-256(b) and size_bytes = len(b), and
\* after any insert and fetch operations every object file is at the path
\* derived from the hash of its own content.
C14_ContentAddressed ==
  /\ \A w \in Workers :
       (wpc[w] = "idle" /\ wret[w].op = "add_object")
         => /\ wret[w].outcome = "ok"
            /\ wret[w].digest.hash = SHA256(wret[w].source)
            /\ wret[w].digest.size_bytes = Len(wret[w].source)
  /\ \A f \in obj_files :
       f[1] = objpath([hash |-> SHA256(inodes[f[2]]),
                       size_bytes |-> Len(inodes[f[2]])])

\* C14 witness: a fetch whose remote sent less than the blob ended in the
\* assertion with the bytes received stored under their own hash, next to
\* an object that add_object returned the digest of.
C14_Witness ==
  /\ wpc["w1"] = "idle" /\ wpc["w2"] = "idle"
  /\ wret["w1"].op = "add_object"
  /\ wret["w1"].source = <<1, 2>>
  /\ wret["w2"].op \in {"_ensure_blob", "_batch_download_complete"}
  /\ wret["w2"].outcome = "AssertionError"
  /\ wret["w2"].source = <<1>>
  /\ Cardinality(obj_files) = 2

-----------------------------------------------------------------------------
\* The ref store: set_ref, resolve_ref, update_mtime and remove.
\*
\* A path is the sequence of its segments below casdir; a segment "" at the
\* end stands for a trailing slash, as in os.path.join(basedir, '').

Tree0 == [hash |-> "d0", size_bytes |-> 10]
Tree1 == [hash |-> "d1", size_bytes |-> 11]
Tree2 == [hash |-> "d2", size_bytes |-> 12]

\* The digests that set_ref is called with.
RefDigests == {Tree1, Tree2}

\* What the calls on the ref store leave alone.
nonref == <<cas, find, store, diff_result, later>>

\* tree.SerializeToString(), line 402: one chunk per field that is not at
\* its default, the hash before the size.
SerializeToString(digest) ==
  (IF digest.hash # "" THEN <<<<"hash", digest.hash, 0>>>> ELSE <<>>)
    \o (IF digest.size_bytes # 0
          THEN <<<<"size_bytes", "", digest.size_bytes>>>> ELSE <<>>)

\* digest.ParseFromString(f.read()), line 424: the fields that are present
\* are set, the others keep their default.
ParseFromString(data) ==
  LET at(field) == {i \in 1..Len(data) : data[i][1] = field}
  IN  [hash |-> IF at("hash") = {} THEN ""
                ELSE data[CHOOSE i \in at("hash") : TRUE][2],
       size_bytes |-> IF at("size_bytes") = {} THEN 0
                      ELSE data[CHOOSE i \in at("size_bytes") : TRUE][3]]

\* os.path.join(a, b) for a relative b: '' appends a slash.
join2(a, b) ==
  LET stem == IF a # <<>> /\ a[Len(a)] = "" THEN SubSeq(a, 1, Len(a) - 1)
              ELSE a
  IN  IF b = <<>> THEN Append(stem, "") ELSE stem \o b

RECURSIVE os_path_join(_, _)
\* os.path.join(base, *components), line 643.
os_path_join(base, components) ==
  IF components = <<>> THEN base
  ELSE os_path_join(join2(base, Head(components)), Tail(components))

\* os.path.split(ref), line 640: (everything before the last slash, the
\* last segment); the head is '' for a name of one segment.
os_path_split(refname) ==
  <<SubSeq(refname, 1, Len(refname) - 1), <<refname[Len(refname)]>>>>

\* os.path.dirname(refpath), line 400.
os_path_dirname(path) == SubSeq(path, 1, Len(path) - 1)

\* _refpath(ref), line 612, and os.path.join(basedir, ref), line 632.
_refpath(refname) == basedir \o refname

\* The directory or file that the kernel looks up for a path string.
Resolve(path) == SelectSeq(path, LAMBDA seg : seg # "")

\* os.makedirs(d, exist_ok=True), line 400: d and every missing ancestor.
makedirs(dirs, d) == dirs \cup {SubSeq(d, 1, k) : k \in 1..Len(d)}

\* Whether nothing has its name in directory d.
IsEmptyDir(d) ==
  /\ \A f \in ref_files : os_path_dirname(f[1]) # d
  /\ \A e \in ref_dirs : e = <<>> \/ os_path_dirname(e) # d

RefExists(path) == \E f \in ref_files : f[1] = path

RefInode(path) == (CHOOSE f \in ref_files : f[1] = path)[2]

\* The call of process p returns or raises.
RefDone(p, outcome, value) ==
  /\ rpc' = [rpc EXCEPT ![p] = "idle"]
  /\ rret' = [rret EXCEPT ![p] = [op |-> rloc[p].op, ref |-> rloc[p].ref,
                                  outcome |-> outcome, value |-> value]]

\* The same for a call that ends in the step it began in.
RefDoneAtOnce(p, op, refname, outcome, value) ==
  /\ rpc' = [rpc EXCEPT ![p] = "idle"]
  /\ rret' = [rret EXCEPT ![p] = [op |-> op, ref |-> refname,
                                  outcome |-> outcome, value |-> value]]
  /\ rloc' = [rloc EXCEPT ![p] =
                [NoRefLocals EXCEPT !.op = op, !.ref = refname]]

\* set_ref(ref, tree), lines 399-401: the directories of the ref are made
\* and save_file_atomic opens a temporary file in tmpdir.
SetRef(p, refname, digest) ==
  /\ rpc[p] = "idle"
  /\ refserial < MaxRefOps
  /\ refserial' = refserial + 1
  /\ ref_dirs' = makedirs(ref_dirs, os_path_dirname(_refpath(refname)))
  /\ ref_tmp' = ref_tmp \cup {refserial'}
  /\ ref_data' = [ref_data EXCEPT ![refserial'] = <<>>]
  /\ rloc' = [rloc EXCEPT ![p] = [NoRefLocals EXCEPT !.op = "set_ref",
                                    !.ref = refname, !.tree = digest,
                                    !.tmp = refserial']]
  /\ rpc' = [rpc EXCEPT ![p] = "write"]
  /\ rret' = [rret EXCEPT ![p] = NoRefReturn]
  /\ refs0' = [refs0 EXCEPT ![p] = RefView]
  /\ UNCHANGED <<nonref, ref_files, touched, stored>>

\* The file that set_ref writes to if it wrote the ref in place.
WriteTarget_InPlace(l) ==
  IF RefExists(_refpath(l.ref)) THEN RefInode(_refpath(l.ref)) ELSE l.tmp

\* The file f that save_file_atomic yields, line 401: the temporary file.
WriteTarget(l) == l.tmp

\* f.write(...), line 402: the serialized digest reaches the file a chunk
\* at a time.
SetRefWrite(p) ==
  /\ rpc[p] = "write"
  /\ rloc[p].written < Len(SerializeToString(rloc[p].tree))
  /\ ref_data' = [ref_data EXCEPT ![WriteTarget(rloc[p])] =
                    SubSeq(SerializeToString(rloc[p].tree), 1,
                           rloc[p].written + 1)]
  /\ rloc' = [rloc EXCEPT ![p].written = @ + 1]
  /\ UNCHANGED <<nonref, ref_dirs, ref_files, ref_tmp, touched, rpc,
                 rret, stored, refs0, refserial>>

\* The end of the with block of save_file_atomic, line 401: the temporary
\* file is renamed onto refpath, replacing what was there in one step. The
\* rename fails if the directory of the ref is gone.
SetRefRename(p) ==
  LET l == rloc[p]
      refpath == _refpath(l.ref)
  IN  /\ rpc[p] = "write"
      /\ l.written = Len(SerializeToString(l.tree))
      /\ ref_tmp' = ref_tmp \ {l.tmp}
      /\ IF os_path_dirname(refpath) \in ref_dirs
           THEN /\ ref_files' = {f \in ref_files : f[1] # refpath}
                                  \cup {<<refpath, l.tmp>>}
                /\ stored' = [stored EXCEPT ![l.ref] = l.tree]
                /\ RefDone(p, "ok", EmptyDigest)
           ELSE /\ RefDone(p, "FileNotFoundError", EmptyDigest)
                /\ UNCHANGED <<ref_files, stored>>
      /\ UNCHANGED <<nonref, ref_dirs, ref_data, touched, rloc,
                     refs0, refserial>>

\* What resolve_ref, update_mtime and remove raise for a ref that is not
\* there, lines 427-428, 440-441 and 636-637.
ResolveMissing_Passed == "FileNotFoundError"

ResolveMissing == "CASCacheError"

\* resolve_ref(ref, update_mtime=...), lines 416-421: the file is opened,
\* and touched if asked for.
ResolveRef(p, refname, update_mtime) ==
  LET refpath == _refpath(refname)
  IN  /\ rpc[p] = "idle"
      /\ refserial < MaxRefOps
      /\ refserial' = refserial + 1
      /\ refs0' = [refs0 EXCEPT ![p] = RefView]
      /\ IF RefExists(refpath)
           THEN /\ rloc' = [rloc EXCEPT ![p] =
                              [NoRefLocals EXCEPT !.op = "resolve_ref",
                                 !.ref = refname, !.handle = RefInode(refpath)]]
                /\ rpc' = [rpc EXCEPT ![p] = "read"]
                /\ rret' = [rret EXCEPT ![p] = NoRefReturn]
                /\ touched' = IF update_mtime THEN touched \cup {refpath}
                              ELSE touched
           ELSE /\ RefDoneAtOnce(p, "resolve_ref", refname, ResolveMissing,
                                 EmptyDigest)
                /\ UNCHANGED touched
      /\ UNCHANGED <<nonref, ref_dirs, ref_files, ref_data, ref_tmp,
                     stored>>

\* Lines 423-425: the open file is read to its end and parsed.
ResolveRefRead(p) ==
  /\ rpc[p] = "read"
  /\ RefDone(p, "ok", ParseFromString(ref_data[rloc[p].handle]))
  /\ UNCHANGED <<nonref, ref_dirs, ref_files, ref_data, ref_tmp,
                 touched, rloc, stored, refs0, refserial>>

\* update_mtime(ref), lines 437-441.
UpdateMtime(p, refname) ==
  LET refpath == _refpath(refname)
  IN  /\ rpc[p] = "idle"
      /\ refserial < MaxRefOps
      /\ refserial' = refserial + 1
      /\ refs0' = [refs0 EXCEPT ![p] = RefView]
      /\ IF RefExists(refpath)
           THEN /\ touched' = touched \cup {refpath}
                /\ RefDoneAtOnce(p, "update_mtime", refname, "ok", EmptyDigest)
           ELSE /\ RefDoneAtOnce(p, "update_mtime", refname, ResolveMissing,
                                 EmptyDigest)
                /\ UNCHANGED touched
      /\ UNCHANGED <<nonref, ref_dirs, ref_files, ref_data, ref_tmp,
                     stored>>

\* remove(ref), lines 452-457, and _remove_ref, lines 632-640: the ref is
\* unlinked and its name split for the pruning loop.
Remove(p, refname) ==
  LET refpath == _refpath(refname)
  IN  /\ rpc[p] = "idle"
      /\ refserial < MaxRefOps
      /\ refserial' = refserial + 1
      /\ refs0' = [refs0 EXCEPT ![p] = RefView]
      /\ IF RefExists(refpath)
           THEN /\ ref_files' = {f \in ref_files : f[1] # refpath}
                /\ stored' = [stored EXCEPT ![refname] = EmptyDigest]
                /\ rloc' = [rloc EXCEPT ![p] =
                              [NoRefLocals EXCEPT !.op = "remove",
                                 !.ref = refname,
                                 !.components = os_path_split(refname)]]
                /\ rpc' = [rpc EXCEPT ![p] = "prune"]
                /\ rret' = [rret EXCEPT ![p] = NoRefReturn]
           ELSE /\ RefDoneAtOnce(p, "remove", refname, ResolveMissing,
                                 EmptyDigest)
                /\ UNCHANGED <<ref_files, stored>>
      /\ UNCHANGED <<nonref, ref_dirs, ref_data, ref_tmp, touched>>

\* One round of the loop of _remove_ref, lines 641-663.
RemovePrune(p) ==
  LET l == rloc[p]
      components == SubSeq(l.components, 1, Len(l.components) - 1)
      refdir == os_path_join(basedir, components)
  IN  /\ rpc[p] = "prune"
      /\ IF l.components = <<>> \/ refdir = basedir
           THEN \* the loop ends, or line 646 breaks out of it
                /\ RefDone(p, "ok", EmptyDigest)
                /\ UNCHANGED <<ref_dirs, rloc>>
           ELSE IF Resolve(refdir) \notin ref_dirs
           THEN \* FileNotFoundError, lines 651-654
                /\ rloc' = [rloc EXCEPT ![p].components = components]
                /\ UNCHANGED <<ref_dirs, rpc, rret>>
           ELSE IF ~IsEmptyDir(Resolve(refdir))
           THEN \* ENOTEMPTY, lines 656-659
                /\ RefDone(p, "ok", EmptyDigest)
                /\ UNCHANGED <<ref_dirs, rloc>>
           ELSE \* os.rmdir(refdir), line 649
                /\ ref_dirs' = ref_dirs \ {Resolve(refdir)}
                /\ rloc' = [rloc EXCEPT ![p].components = components]
                /\ UNCHANGED <<rpc, rret>>
      /\ UNCHANGED <<nonref, ref_files, ref_data, ref_tmp, touched,
                     stored, refs0, refserial>>

\* A new CASCache and nothing else going on.
InitRefs ==
  /\ CasParked
  /\ remote_objects = {}
  /\ FindParked
  /\ StoreParked
  /\ RefsParked
  /\ DiffParked
  /\ LaterParked

\* A step of process p on the ref store.
RefStep(p) ==
  \/ \E refname \in RefPaths, digest \in RefDigests :
       SetRef(p, refname, digest)
  \/ SetRefWrite(p)
  \/ SetRefRename(p)
  \/ \E refname \in RefPaths, update_mtime \in BOOLEAN :
       ResolveRef(p, refname, update_mtime)
  \/ ResolveRefRead(p)
  \/ \E refname \in RefPaths : UpdateMtime(p, refname)
  \/ \E refname \in RefPaths : Remove(p, refname)
  \/ RemovePrune(p)

\* One process calls the ref store, one call after the other.
NextRefs == RefStep("p1")

SpecRefs == InitRefs /\ [][NextRefs]_vars

\* The ref both writers set and the reader resolves.
RaceRef == <<"p", "q">>

\* The ref holds Tree0 and no call is under way.
InitRefRace ==
  /\ CasParked
  /\ remote_objects = {}
  /\ FindParked
  /\ StoreParked
  /\ DiffParked
  /\ LaterParked
  /\ ref_dirs = makedirs({}, os_path_dirname(_refpath(RaceRef)))
  /\ ref_files = {<<_refpath(RaceRef), 0>>}
  /\ ref_data = [k \in 0..MaxRefOps |->
                   IF k = 0 THEN SerializeToString(Tree0) ELSE <<>>]
  /\ ref_tmp = {}
  /\ touched = {}
  /\ rpc = [p \in RefProcs |-> "idle"]
  /\ rloc = [p \in RefProcs |-> NoRefLocals]
  /\ rret = [p \in RefProcs |-> NoRefReturn]
  /\ stored = [r \in RefPaths |-> IF r = RaceRef THEN Tree0 ELSE EmptyDigest]
  /\ refs0 = [p \in RefProcs |->
               [dirs |-> {<<"refs">>, basedir}, files |-> {}]]
  /\ refserial = 0

\* p1 sets the ref to Tree1 and p2 to Tree2 while p3 resolves it, every
\* system call of one interleaved with those of the others.
NextRefRace ==
  \/ SetRef("p1", RaceRef, Tree1)
  \/ SetRef("p2", RaceRef, Tree2)
  \/ ResolveRef("p3", RaceRef, FALSE)
  \/ \E p \in RefProcs : SetRefWrite(p)
  \/ \E p \in RefProcs : SetRefRename(p)
  \/ \E p \in RefProcs : ResolveRefRead(p)

SpecRefRace == InitRefRace /\ [][NextRefRace]_vars

\* C15: with set_ref(name, Tree1) and set_ref(name, Tree2) racing and
\* resolve_ref(name) reading meanwhile, every read returns a whole digest,
\* the previous one or one of the two written, and once no call is under way
\* the ref holds the digest of the writer whose rename came last.
C15_RefRace ==
  /\ \A p \in RefProcs :
       (rpc[p] = "idle" /\ rret[p].op = "resolve_ref")
         => /\ rret[p].outcome = "ok"
            /\ rret[p].value \in {Tree0, Tree1, Tree2}
  /\ (\A p \in RefProcs : rpc[p] = "idle")
       => /\ RefExists(_refpath(RaceRef))
          /\ ParseFromString(ref_data[RefInode(_refpath(RaceRef))])
               = stored[RaceRef]
          /\ \A p \in {"p1", "p2"} : rret[p].op \in {None, "set_ref"}

\* C15 witness: both writers have renamed, Tree2 first and Tree1 last, and
\* the reader that opened the ref in between returned Tree2.
C15_Witness ==
  /\ \A p \in RefProcs : rpc[p] = "idle"
  /\ rret["p1"].op = "set_ref" /\ rret["p1"].outcome = "ok"
  /\ rret["p2"].op = "set_ref" /\ rret["p2"].outcome = "ok"
  /\ rret["p3"].op = "resolve_ref" /\ rret["p3"].value = Tree2
  /\ stored[RaceRef] = Tree1
  /\ RefInode(_refpath(RaceRef)) > rloc["p3"].handle

C16_WitnessMissing ==
  /\ rpc["p1"] = "idle"
  /\ rret["p1"].op = "remove"
  /\ rret["p1"].outcome = "CASCacheError"
  /\ ref_files # {}

\* C17: after remove(name) has returned, no directory below refs/heads is
\* empty: every empty ancestor of the ref was pruned.
C17_RemovePrunesAncestors ==
  \A p \in RefProcs :
    (rpc[p] = "idle" /\ rret[p].op = "remove" /\ rret[p].outcome = "ok")
      => \A d \in ref_dirs : Len(d) > Len(basedir) => ~IsEmptyDir(d)

\* C18: refs/heads exists whatever set_ref and remove calls were made.
C18_BaseDirKept == basedir \in ref_dirs

-----------------------------------------------------------------------------
\* diff and diff_trees, lines 188-198 and 554-605.
\*
\* A tree is named by the hash of its digest; "" stands for None.

NoTree == ""

\* Every name that occurs in a directory, in ascending order.
NameOrder == <<"d", "e", "f1", "f2", "f3", "g", "l">>

\* Whether name x > name y, as Python compares the strings.
NameGreater(x, y) ==
  (CHOOSE i \in 1..Len(NameOrder) : NameOrder[i] = x)
    > (CHOOSE i \in 1..Len(NameOrder) : NameOrder[i] = y)

DiffFile(name, hash) ==
  [name |-> name, hash |-> hash, is_executable |-> FALSE]

\* A FileNode with is_executable set.
DiffExecFile(name, hash) ==
  [name |-> name, hash |-> hash, is_executable |-> TRUE]

DiffDirectory(files, directories, symlinks) ==
  [files |-> files, directories |-> directories, symlinks |-> symlinks]

\* remote_execution_pb2.Directory(), lines 555-556.
EmptyDirectory == DiffDirectory(<<>>, <<>>, <<>>)

\* The Directory objects in objects/: four subtrees (an empty one, one with
\* a symlink, one with a file of the symlink's name, one nested) and eight
\* roots.
DirHashes ==
  {"s0", "s1", "s2", "s3", "ra", "rb", "rc", "rd", "re", "rf", "rx", "rh"}

\* The Directory that the object named hash holds, its lists sorted by name.
StoredDirectory(hash) ==
  CASE hash = "s1" ->
         DiffDirectory(<<DiffFile("g", "h1")>>, <<>>, <<"l">>)
    [] hash = "s2" ->
         DiffDirectory(<<DiffFile("g", "h2"), DiffFile("l", "h3")>>, <<>>, <<>>)
    [] hash = "s3" ->
         DiffDirectory(<<DiffFile("g", "h1")>>, <<DiffFile("e", "s1")>>, <<>>)
    [] hash = "ra" ->
         DiffDirectory(<<DiffFile("f1", "h1"), DiffFile("f2", "h2")>>,
                       <<>>, <<>>)
    [] hash = "rb" ->
         DiffDirectory(<<DiffFile("f1", "h1x"), DiffFile("f3", "h3")>>,
                       <<>>, <<>>)
    [] hash = "rc" ->
         DiffDirectory(<<DiffFile("f1", "h1")>>, <<DiffFile("d", "s1")>>,
                       <<"f3">>)
    [] hash = "rd" ->
         DiffDirectory(<<DiffFile("f1", "h1")>>,
                       <<DiffFile("d", "s1"), DiffFile("e", "s2")>>, <<>>)
    [] hash = "re" ->
         DiffDirectory(<<DiffFile("d", "h2")>>, <<DiffFile("e", "s3")>>, <<>>)
    [] hash = "rf" ->
         DiffDirectory(<<>>, <<DiffFile("d", "s2")>>, <<"g">>)
    [] hash = "s0" -> DiffDirectory(<<>>, <<>>, <<>>)
    [] hash = "rx" ->
         DiffDirectory(<<DiffExecFile("f1", "h1"), DiffFile("f2", "h2")>>,
                       <<>>, <<>>)
    [] hash = "rh" ->
         DiffDirectory(<<DiffFile("f1", "h1"), DiffFile("f2", "h2")>>,
                       <<DiffFile("d", "s0")>>, <<>>)

\* Lines 558-563: the Directory of a tree, empty for None.
ReadDirectory(treehash) ==
  IF treehash = NoTree THEN EmptyDirectory ELSE StoredDirectory(treehash)

\* The path of an entry if the path of its directory were dropped.
ChildPath_NameOnly(path, name) == <<name>>

\* os.path.join(path, name), lines 570-600.
ChildPath(path, name) == join2(path, <<name>>)

RECURSIVE diff_files(_, _, _, _, _, _)
\* The first loop of diff_trees, lines 565-581; lists holds added, removed
\* and modified as they are so far.
diff_files(dir_a, dir_b, a, b, lists, path) ==
  IF ~(a < Len(dir_a.files) \/ b < Len(dir_b.files)) THEN lists
  ELSE IF b < Len(dir_b.files)
            /\ (a >= Len(dir_a.files)
                \/ NameGreater(dir_a.files[a + 1].name,
                               dir_b.files[b + 1].name))
  THEN diff_files(dir_a, dir_b, a, b + 1,
                  [lists EXCEPT !.added =
                     Append(@, ChildPath(path, dir_b.files[b + 1].name))],
                  path)
  ELSE IF a < Len(dir_a.files)
            /\ (b >= Len(dir_b.files)
                \/ NameGreater(dir_b.files[b + 1].name,
                               dir_a.files[a + 1].name))
  THEN diff_files(dir_a, dir_b, a + 1, b,
                  [lists EXCEPT !.removed =
                     Append(@, ChildPath(path, dir_a.files[a + 1].name))],
                  path)
  ELSE diff_files(dir_a, dir_b, a + 1, b + 1,
                  IF dir_a.files[a + 1].hash # dir_b.files[b + 1].hash
                    THEN [lists EXCEPT !.modified =
                            Append(@, ChildPath(path,
                                                dir_a.files[a + 1].name))]
                    ELSE lists,
                  path)

\* The second loop if it left the subdirectories alone.
diff_directories_Skipped(dir_a, dir_b, a, b, lists, path) == lists

RECURSIVE diff_trees(_, _, _, _)
RECURSIVE diff_directories(_, _, _, _, _, _)
\* The second loop of diff_trees, lines 583-605.
diff_directories(dir_a, dir_b, a, b, lists, path) ==
  LET da == dir_a.directories
      db == dir_b.directories
  IN  IF ~(a < Len(da) \/ b < Len(db)) THEN lists
      ELSE IF b < Len(db)
                /\ (a >= Len(da) \/ NameGreater(da[a + 1].name, db[b + 1].name))
      THEN diff_directories(dir_a, dir_b, a, b + 1,
                            diff_trees(NoTree, db[b + 1].hash, lists,
                                       ChildPath(path, db[b + 1].name)),
                            path)
      ELSE IF a < Len(da)
                /\ (b >= Len(db) \/ NameGreater(db[b + 1].name, da[a + 1].name))
      THEN diff_directories(dir_a, dir_b, a + 1, b,
                            diff_trees(da[a + 1].hash, NoTree, lists,
                                       ChildPath(path, da[a + 1].name)),
                            path)
      ELSE diff_directories(dir_a, dir_b, a + 1, b + 1,
                            IF da[a + 1].hash # db[b + 1].hash
                              THEN diff_trees(da[a + 1].hash, db[b + 1].hash,
                                              lists,
                                              ChildPath(path, da[a + 1].name))
                              ELSE lists,
                            path)

\* diff_trees with its two loops in the other order.
diff_trees_DirsFirst(tree_a, tree_b, lists, path) ==
  LET dir_a == ReadDirectory(tree_a)
      dir_b == ReadDirectory(tree_b)
  IN  diff_files(dir_a, dir_b, 0, 0,
                 diff_directories(dir_a, dir_b, 0, 0, lists, path), path)

\* diff_trees(tree_a, tree_b, added=, removed=, modified=, path=), lines
\* 554-605: the three lists after the call.
diff_trees(tree_a, tree_b, lists, path) ==
  LET dir_a == ReadDirectory(tree_a)
      dir_b == ReadDirectory(tree_b)
  IN  diff_directories(dir_a, dir_b, 0, 0,
                       diff_files(dir_a, dir_b, 0, 0, lists, path), path)

\* The tuple returned if the lists came in the order they were made in.
DiffReturn_AddedFirst(lists) == <<lists.added, lists.removed, lists.modified>>

\* return modified, removed, added: line 198.
DiffReturn(lists) == <<lists.modified, lists.removed, lists.added>>

\* diff(ref_a, ref_b), lines 188-198; resolve_ref raises for a ref that is
\* not there (lines 427-428).
Diff(ref_a, ref_b) ==
  /\ IF ~RefExists(_refpath(ref_a)) \/ ~RefExists(_refpath(ref_b))
       THEN diff_result' = [raised |-> ResolveMissing, value |-> <<>>]
       ELSE LET tree_a == ParseFromString(ref_data[RefInode(_refpath(ref_a))])
                tree_b == ParseFromString(ref_data[RefInode(_refpath(ref_b))])
                lists == [added |-> <<>>, removed |-> <<>>, modified |-> <<>>]
            IN  diff_result' =
                  [raised |-> None,
                   value |-> <<ref_a, ref_b,
                               DiffReturn(diff_trees(tree_a.hash, tree_b.hash,
                                                     lists, <<>>))>>]
  /\ UNCHANGED <<cas, find, store, refstore, later>>

\* The refs that diff is called with.
DiffRefs == {<<"x">>, <<"p", "q">>}

\* The digest of the Directory object named hash.
TreeDigest(hash) == [hash |-> hash, size_bytes |-> 1]

\* The tree that ref points to, NoTree if the ref is not there.
TreeOf(refname) ==
  IF RefExists(_refpath(refname))
    THEN ParseFromString(ref_data[RefInode(_refpath(refname))]).hash
    ELSE NoTree

\* Each of the two refs is absent or was set to one of the trees.
InitDiff ==
  /\ CasParked
  /\ remote_objects = {}
  /\ FindParked
  /\ StoreParked
  /\ DiffParked
  /\ LaterParked
  /\ \E tx \in DirHashes \cup {NoTree}, tq \in DirHashes \cup {NoTree} :
       /\ ref_dirs = {<<"refs">>, basedir}
                       \cup (IF tq = NoTree THEN {} ELSE {_refpath(<<"p">>)})
       /\ ref_files = (IF tx = NoTree THEN {} ELSE {<<_refpath(<<"x">>), 1>>})
                        \cup (IF tq = NoTree THEN {}
                              ELSE {<<_refpath(<<"p", "q">>), 2>>})
       /\ ref_data = [k \in 0..MaxRefOps |->
                        IF k = 1 /\ tx # NoTree
                          THEN SerializeToString(TreeDigest(tx))
                        ELSE IF k = 2 /\ tq # NoTree
                          THEN SerializeToString(TreeDigest(tq))
                        ELSE <<>>]
       /\ stored = [r \in RefPaths |->
                      IF r = <<"x">> /\ tx # NoTree THEN TreeDigest(tx)
                      ELSE IF r = <<"p", "q">> /\ tq # NoTree
                        THEN TreeDigest(tq)
                      ELSE EmptyDigest]
  /\ ref_tmp = {}
  /\ touched = {}
  /\ rpc = [p \in RefProcs |-> "idle"]
  /\ rloc = [p \in RefProcs |-> NoRefLocals]
  /\ rret = [p \in RefProcs |-> NoRefReturn]
  /\ refs0 = [p \in RefProcs |->
               [dirs |-> {<<"refs">>, basedir}, files |-> {}]]
  /\ refserial = MaxRefOps

NextDiff == \E ref_a \in DiffRefs, ref_b \in DiffRefs : Diff(ref_a, ref_b)

SpecDiff == InitDiff /\ [][NextDiff]_vars

RECURSIVE FlatFiles(_, _)
\* Every file beneath a tree as <<path, hash>>, path starting with prefix;
\* symlinks are left out.
FlatFiles(treehash, prefix) ==
  LET dir == ReadDirectory(treehash)
  IN  {<<Append(prefix, dir.files[i].name), dir.files[i].hash>> :
         i \in 1..Len(dir.files)}
        \cup UNION {FlatFiles(dir.directories[i].hash,
                              Append(prefix, dir.directories[i].name)) :
                      i \in 1..Len(dir.directories)}

FilePaths(treehash) == {f[1] : f \in FlatFiles(treehash, <<>>)}

\* diff returned without raising.
DiffReturned == diff_result.raised = None /\ diff_result.value # <<>>

\* The paths of files that only tree_b has, that only tree_a has, and that
\* both have with different hashes.
ExpectAdded(tree_a, tree_b) == FilePaths(tree_b) \ FilePaths(tree_a)

ExpectRemoved(tree_a, tree_b) == FilePaths(tree_a) \ FilePaths(tree_b)

ExpectModified(tree_a, tree_b) ==
  {p \in FilePaths(tree_a) \cap FilePaths(tree_b) :
     \E fa \in FlatFiles(tree_a, <<>>), fb \in FlatFiles(tree_b, <<>>) :
       fa[1] = p /\ fb[1] = p /\ fa[2] # fb[2]}

\* C19 as stated: diff returns (added, removed, modified) in that order.
C19_DiffOrderAsStated ==
  DiffReturned =>
    LET tree_a == TreeOf(diff_result.value[1])
        tree_b == TreeOf(diff_result.value[2])
        lists == diff_result.value[3]
    IN  /\ Range(lists[1]) = ExpectAdded(tree_a, tree_b)
        /\ Range(lists[2]) = ExpectRemoved(tree_a, tree_b)
        /\ Range(lists[3]) = ExpectModified(tree_a, tree_b)

\* C19 amended: diff returns its three lists in the order (modified,
\* removed, added): the files in both trees with different hashes, the files
\* only ref_a has, the files only ref_b has.
C19_DiffOrder ==
  DiffReturned =>
    LET tree_a == TreeOf(diff_result.value[1])
        tree_b == TreeOf(diff_result.value[2])
        lists == diff_result.value[3]
    IN  /\ Range(lists[1]) = ExpectModified(tree_a, tree_b)
        /\ Range(lists[2]) = ExpectRemoved(tree_a, tree_b)
        /\ Range(lists[3]) = ExpectAdded(tree_a, tree_b)

\* C19 witness: the claim's example, a = {f1: h1, f2: h2} and
\* b = {f1: h1', f3: h3}; diff returned ([f1], [f2], [f3]).
C19_Witness ==
  /\ DiffReturned
  /\ TreeOf(diff_result.value[1]) = "ra"
  /\ TreeOf(diff_result.value[2]) = "rb"
  /\ diff_result.value[3] = << <<<<"f1">>>>, <<<<"f2">>>>, <<<<"f3">>>> >>

-----------------------------------------------------------------------------
\* checkout, lines 148-175, and what diff says about two checkouts.

CheckoutEntry(path, kind, data, executable) ==
  [path |-> path, kind |-> kind, data |-> data, executable |-> executable]

RECURSIVE checkout(_, _)
\* checkout(dest, tree) into a destination that is not there yet: what is
\* on disk below dest afterwards. dest is the path relative to the
\* destination of the outermost call.
checkout(dest, treehash) ==
  LET directory == StoredDirectory(treehash)
  IN  {CheckoutEntry(dest, "dir", "", FALSE)}
        \cup {CheckoutEntry(join2(dest, <<directory.files[i].name>>), "file",
                            directory.files[i].hash,
                            directory.files[i].is_executable) :
                i \in 1..Len(directory.files)}
        \cup UNION {checkout(join2(dest, <<directory.directories[i].name>>),
                             directory.directories[i].hash) :
                      i \in 1..Len(directory.directories)}
        \cup {CheckoutEntry(join2(dest, <<directory.symlinks[i]>>), "symlink",
                            "target", FALSE) :
                i \in 1..Len(directory.symlinks)}

\* The checkout of tree_a after the lists of diff were applied: every path
\* in removed deleted, every path in added or modified written as the file
\* the checkout of tree_b has there, in place of what was there, the
\* directories above it made as needed.
Patched(tree_a, tree_b, added, removed, modified) ==
  LET written == Range(added) \cup Range(modified)
      from_b == {e \in checkout(<<>>, tree_b) :
                   e.kind = "file" /\ e.path \in written}
      kept == {e \in checkout(<<>>, tree_a) :
                 e.path \notin Range(removed) /\ e.path \notin written}
      above == UNION {{CheckoutEntry(SubSeq(e.path, 1, k), "dir", "", FALSE) :
                         k \in 0..(Len(e.path) - 1)} : e \in from_b}
  IN  kept \cup from_b \cup above

\* The regular files of a checkout: path and content.
RegularFiles(entries) ==
  {<<e.path, e.data>> : e \in {x \in entries : x.kind = "file"}}

\* C21 as stated: the checkout of a with the lists of diff(a, b) applied is
\* the checkout of b: names, contents, executable bits, symlinks and
\* directories.
C21_DiffSoundAsStated ==
  DiffReturned =>
    LET tree_a == TreeOf(diff_result.value[1])
        tree_b == TreeOf(diff_result.value[2])
        lists == diff_result.value[3]
    IN  Patched(tree_a, tree_b, lists[3], lists[2], lists[1])
          = checkout(<<>>, tree_b)

\* C21 amended: the checkout of a with the lists of diff(a, b) applied has
\* the regular files of the checkout of b, the same paths with the same
\* contents.
C21_DiffSoundForFiles ==
  DiffReturned =>
    LET tree_a == TreeOf(diff_result.value[1])
        tree_b == TreeOf(diff_result.value[2])
        lists == diff_result.value[3]
    IN  RegularFiles(Patched(tree_a, tree_b, lists[3], lists[2], lists[1]))
          = RegularFiles(checkout(<<>>, tree_b))

\* C21 witness: rd and re were compared; the lists change, remove and add
\* files at three depths and the file d of re takes the place of the
\* directory d of rd.
C21_Witness ==
  /\ DiffReturned
  /\ TreeOf(diff_result.value[1]) = "rd"
  /\ TreeOf(diff_result.value[2]) = "re"
  /\ diff_result.value[3][1] = <<<<"e", "g">>>>
  /\ Len(diff_result.value[3][2]) = 3
  /\ Len(diff_result.value[3][3]) = 2

\* Whether path p may come before path q in a list that follows the walk of
\* diff_trees: at the first segment they differ in, a file of the directory
\* comes before everything in its subdirectories, and otherwise the smaller
\* name comes first.
WalkBefore(p, q) ==
  \E k \in 1..Len(p) :
    /\ k <= Len(q)
    /\ SubSeq(p, 1, k - 1) = SubSeq(q, 1, k - 1)
    /\ p[k] # q[k]
    /\ \/ Len(p) = k /\ Len(q) > k
       \/ (Len(p) = k) = (Len(q) = k) /\ NameGreater(q[k], p[k])

\* Whether path p is smaller than path q as a string.
PathLess(p, q) ==
  \/ Len(p) < Len(q) /\ p = SubSeq(q, 1, Len(p))
  \/ \E k \in 1..Len(p) :
       /\ k <= Len(q)
       /\ SubSeq(p, 1, k - 1) = SubSeq(q, 1, k - 1)
       /\ p[k] # q[k]
       /\ NameGreater(q[k], p[k])

\* C22 as stated: each list that diff returns is in ascending order of the
\* paths in it.
C22_AscendingAsStated ==
  DiffReturned =>
    \A n \in 1..3 :
      LET list == diff_result.value[3][n]
      IN  \A i \in 1..Len(list) : \A j \in 1..Len(list) :
            i < j => PathLess(list[i], list[j])

\* C22 amended: each list that diff returns follows the walk of diff_trees:
\* the files of a directory in ascending order of their names, and after
\* them the entries of its subdirectories, in ascending order of the
\* subdirectories' names.
C22_WalkOrder ==
  DiffReturned =>
    \A n \in 1..3 :
      LET list == diff_result.value[3][n]
      IN  \A i \in 1..Len(list) : \A j \in 1..Len(list) :
            i < j => WalkBefore(list[i], list[j])

\* C22 witness: re and rd were compared; the list of added files is f1,
\* d/g, e/l: the file of the root before the files of its subdirectories.
C22_Witness ==
  /\ DiffReturned
  /\ TreeOf(diff_result.value[1]) = "re"
  /\ TreeOf(diff_result.value[2]) = "rd"
  /\ diff_result.value[3][3] = << <<"f1">>, <<"d", "g">>, <<"e", "l">> >>

-----------------------------------------------------------------------------
\* The traversals: required_blobs_for_directory, lines 534-552, and
\* _reachable_refs_dir, lines 681-711.

\* The state that the traversals leave alone.
nonwalk == <<cas, find, store, refstore, diff_result, vdir>>

\* The trees that are traversed and the names that are excluded.
WalkRoots == {"r1", "r2", "d1", "d2"}

WalkNames == {"x", "z", "n"}

\* The directories that required_blobs_for_directory opens (line 545).
OpenedBy(directory_digest, excluded_subdirs) ==
  {directory_digest}
    \cup UNION {DirectoryClosure(n.digest) :
                  n \in {m \in Range(ParseDirectory(directory_digest).directories) :
                           m.name \notin excluded_subdirs}}

\* list(required_blobs_for_directory(directory_digest,
\* excluded_subdirs=...)); open raises FileNotFoundError for a directory
\* that has no object (what was yielded before that is not kept).
RequiredBlobsForDirectory(directory_digest, excluded_subdirs) ==
  /\ walk_result' =
       IF OpenedBy(directory_digest, excluded_subdirs) \subseteq walk_objects
         THEN [NoWalk EXCEPT !.op = "required_blobs_for_directory",
                 !.tree = directory_digest,
                 !.excluded_subdirs = excluded_subdirs,
                 !.yielded = required_blobs_for_directory(directory_digest,
                                                          excluded_subdirs)]
         ELSE [NoWalk EXCEPT !.op = "required_blobs_for_directory",
                 !.tree = directory_digest,
                 !.excluded_subdirs = excluded_subdirs,
                 !.raised = "FileNotFoundError"]
  /\ UNCHANGED <<nonwalk, walk_objects>>

\* The test of line 682 if it never found the tree.
AlreadyReached_Never(reachable, treehash) == FALSE

\* tree.hash in reachable, line 682.
AlreadyReached(reachable, treehash) == treehash \in reachable

\* The handler of lines 693-698 if it swallowed the error in every mode.
MissingDirectory_Swallowed(st) == st

\* except FileNotFoundError, lines 693-698: raised again in check_exists
\* mode, else the call returns.
MissingDirectory(st) ==
  IF st.check_exists THEN [st EXCEPT !.raised = "FileNotFoundError"] ELSE st

RECURSIVE reachable_files(_, _, _)
\* The loop over directory.files, lines 700-706, from file i on.
reachable_files(st, files, i) ==
  IF st.raised # None \/ i > Len(files) THEN st
  ELSE LET digest == files[i].digest
       IN  IF (st.update_mtime \/ st.check_exists) /\ digest \notin walk_objects
             THEN [st EXCEPT !.raised = "FileNotFoundError"]
             ELSE reachable_files(
                    [st EXCEPT !.reachable = @ \cup {digest},
                               !.touched = IF st.update_mtime
                                             THEN @ \cup {digest} ELSE @],
                    files, i + 1)

RECURSIVE _reachable_refs_dir(_, _)
RECURSIVE reachable_directories(_, _, _)
\* The loop over directory.directories, lines 708-709, from entry i on.
reachable_directories(st, directories, i) ==
  IF st.raised # None \/ i > Len(directories) THEN st
  ELSE reachable_directories(_reachable_refs_dir(st, directories[i].digest),
                             directories, i + 1)

\* _reachable_refs_dir(reachable, tree, update_mtime, check_exists), lines
\* 681-709: st holds the set reachable and the two flags; what is raised is
\* kept in st.raised.
_reachable_refs_dir(st, treehash) ==
  IF AlreadyReached(st.reachable, treehash) THEN st
  ELSE IF st.update_mtime /\ treehash \notin walk_objects
    THEN \* os.utime raises, line 686
         MissingDirectory(st)
  ELSE LET added == [st EXCEPT !.reachable = @ \cup {treehash},
                               !.touched = IF st.update_mtime
                                             THEN @ \cup {treehash} ELSE @]
       IN  IF treehash \notin walk_objects
             THEN \* open raises, line 692
                  MissingDirectory(added)
             ELSE LET directory == ParseDirectory(treehash)
                      read == [added EXCEPT !.opened = Append(@, treehash)]
                  IN  reachable_directories(
                        reachable_files(read, directory.files, 1),
                        directory.directories, 1)

\* A call of _reachable_refs_dir with an empty set.
ReachableRefsDir(treehash, update_mtime, check_exists) ==
  /\ walk_result' =
       _reachable_refs_dir([NoWalk EXCEPT !.op = "_reachable_refs_dir",
                              !.tree = treehash,
                              !.update_mtime = update_mtime,
                              !.check_exists = check_exists],
                           treehash)
  /\ UNCHANGED <<nonwalk, walk_objects>>

\* Every object is in the store, or all but one.
InitWalk ==
  /\ CasParked
  /\ remote_objects = {}
  /\ FindParked
  /\ StoreParked
  /\ RefsParked
  /\ DiffParked
  /\ walk_objects \in {Hash} \cup {Hash \ {h} : h \in Hash}
  /\ walk_result = NoWalk
  /\ VdirParked

NextWalk ==
  \/ \E d \in WalkRoots, excluded_subdirs \in SUBSET WalkNames :
       RequiredBlobsForDirectory(d, excluded_subdirs)
  \/ \E d \in WalkRoots, update_mtime \in BOOLEAN, check_exists \in BOOLEAN :
       ReachableRefsDir(d, update_mtime, check_exists)

SpecWalk == InitWalk /\ [][NextWalk]_vars

RECURSIVE Consume(_, _, _)
RECURSIVE ConsumeDirs(_, _, _, _)
\* Where the part of seq that starts at pos and holds the digest of
\* directory d, then its files' digests in list order, then the same for
\* each of its subdirectories in list order, ends; 0 if seq has something
\* else there.
Consume(seq, pos, d) ==
  LET directory == ParseDirectory(d)
      n == Len(directory.files)
  IN  IF pos = 0 \/ pos + n > Len(seq) THEN 0
      ELSE IF seq[pos] # d THEN 0
      ELSE IF \E i \in 1..n : seq[pos + i] # directory.files[i].digest THEN 0
      ELSE ConsumeDirs(seq, pos + n + 1, directory.directories, 1)

ConsumeDirs(seq, pos, directories, i) ==
  IF pos = 0 \/ i > Len(directories) THEN pos
  ELSE ConsumeDirs(seq, Consume(seq, pos, directories[i].digest),
                   directories, i + 1)

RECURSIVE MerkleClosure(_)
\* d with every directory digest and file digest beneath it.
MerkleClosure(d) ==
  {d} \cup {n.digest : n \in Range(ParseDirectory(d).files)}
      \cup UNION {MerkleClosure(n.digest) :
                    n \in Range(ParseDirectory(d).directories)}

\* A traversal by required_blobs_for_directory has ended without raising.
Yielded ==
  walk_result.op = "required_blobs_for_directory" /\ walk_result.raised = None

\* C23: with no exclusions required_blobs_for_directory(d) yields, for
\* every directory it visits, the directory's digest, then the digests of
\* its files in list order, then what the recursion into its subdirectories
\* yields, in list order; what it yields is d and every directory and file
\* digest of the Merkle closure of d.
C23_RequiredBlobsOrder ==
  (Yielded /\ walk_result.excluded_subdirs = {})
    => /\ Consume(walk_result.yielded, 1, walk_result.tree)
            = Len(walk_result.yielded) + 1
       /\ Range(walk_result.yielded) = MerkleClosure(walk_result.tree)

\* C23 witness: r1 was traversed: two files, the subdirectory d1 twice and
\* d2 with a subdirectory of its own.
C23_Witness ==
  /\ Yielded
  /\ walk_result.excluded_subdirs = {}
  /\ walk_result.yielded
       = <<"r1", "f1", "f3", "d1", "f1", "d1", "f1", "d2", "f2", "e">>

RECURSIVE AllowedClosure(_, _)
\* d with every digest that can be reached from it without going through a
\* subdirectory whose name is in excluded.
AllowedClosure(d, excluded) ==
  {d} \cup {n.digest : n \in Range(ParseDirectory(d).files)}
      \cup UNION {AllowedClosure(n.digest, excluded) :
                    n \in {m \in Range(ParseDirectory(d).directories) :
                             m.name \notin excluded}}

\* C24: required_blobs_for_directory(d, excluded_subdirs=E) yields no digest
\* that is reachable from d only through a subdirectory, at any depth,
\* whose name is in E.
C24_ExcludedAtEveryLevel ==
  Yielded =>
    Range(walk_result.yielded)
      \subseteq AllowedClosure(walk_result.tree, walk_result.excluded_subdirs)

\* A call of _reachable_refs_dir has ended.
Reached == walk_result.op = "_reachable_refs_dir"

MissingObjects == MerkleClosure(walk_result.tree) \ walk_objects

C26_WitnessCheckExists ==
  /\ Reached
  /\ walk_result.tree = "r1"
  /\ walk_result.check_exists
  /\ walk_objects = Hash \ {"d2"}
  /\ walk_result.raised = "FileNotFoundError"

-----------------------------------------------------------------------------
\* CasBasedDirectory, storage/_casbaseddirectory.py: a mutable tree of
\* directory objects over the encoded Directory messages.
\*
\* An object is a record: filename and parent (0 for none, else the position
\* of the parent in vd_objects), the three lists of its pb2_directory, its
\* index and its ref.  A digest is the sequence of the one thing it is the
\* hash of (the encoding itself, so that the hash is injective), and an unset
\* digest or ref is the empty sequence.  An entry of the index names the node
\* it holds by the list the node is in and its position there: nodes are only
\* ever appended, so positions are stable.

\* The state that the directory objects leave alone.
nonvdir == <<cas, find, store, refstore, diff_result, walk>>

\* The names of entries, ascending in the order of strings.
VdNames == <<"a", "b", "d">>

\* The characters of a name as their code points.
ord(name) ==
  CASE name = "a" -> <<97>>
    [] name = "b" -> <<98>>
    [] name = "d" -> <<100>>
    [] name = "d-x" -> <<100, 45, 120>>
    [] name = "f" -> <<102>>
    [] name = ".." -> <<46, 46>>
    [] name = "" -> <<>>

\* os.path.sep.join(path) as code points.
RECURSIVE PathString(_)
PathString(path) ==
  IF path = <<>> THEN <<>>
  ELSE IF Len(path) = 1 THEN ord(path[1])
  ELSE ord(path[1]) \o <<47>> \o PathString(Tail(path))

\* s < t for strings, as Python compares them: by the first code point that
\* differs, a proper prefix first.
RECURSIVE StringLess(_, _)
StringLess(s, t) ==
  IF t = <<>> THEN FALSE
  ELSE IF s = <<>> THEN TRUE
  ELSE IF s[1] # t[1] THEN s[1] < t[1]
  ELSE StringLess(Tail(s), Tail(t))

\* The position of a name in the order of strings.
NameRank(n) == CHOOSE i \in 1..Len(VdNames) : VdNames[i] = n

\* What a source directory on disk holds under one relative path.
ImportFile(path, blob, is_executable) ==
  [path |-> path, kind |-> "file", digest |-> <<[blob |-> blob]>>,
   is_executable |-> is_executable, target |-> <<>>]

\* The target of a link is the sequence of its components,
\* target.split(os.path.sep): an absolute target begins with "".
ImportLink(path, target) ==
  [path |-> path, kind |-> "link", digest |-> <<>>,
   is_executable |-> FALSE, target |-> target]

ImportDir(path) ==
  [path |-> path, kind |-> "dir", digest |-> <<>>,
   is_executable |-> FALSE, target |-> <<>>]

\* The sources that are imported: each is the set of entries listed in files.
VdImports ==
  { {ImportFile(<<"a">>, "c1", FALSE)},
    {ImportFile(<<"b">>, "c1", FALSE)},
    {ImportFile(<<"b">>, "c2", TRUE), ImportFile(<<"a">>, "c2", FALSE)},
    {ImportDir(<<"a">>)},
    {ImportLink(<<"a">>, <<"b">>)},
    {ImportFile(<<"d", "a">>, "c1", FALSE)},
    {ImportFile(<<"d">>, "c1", FALSE)} }

\* CasBasedDirectory(context, parent=parent, filename=filename), lines 74-89
\* with ref None: an empty pb2_directory and an empty index.
NewDirectory(parent, filename) ==
  [filename |-> filename, parent |-> parent, files |-> <<>>,
   directories |-> <<>>, symlinks |-> <<>>, index |-> {}, ref |-> <<>>]

\* self.pb2_directory.SerializeToString(): the three lists as they stand.
Encoding(o) ==
  [files |-> o.files, directories |-> o.directories, symlinks |-> o.symlinks]

\* IndexEntry(pb2_object, buildstream_object, modified), lines 46-54.
IndexEntry(name, kind, pos, child, modified) ==
  [name |-> name, kind |-> kind, pos |-> pos, child |-> child,
   modified |-> modified]

\* name in self.index
InIndex(o, name) == \E e \in o.index : e.name = name

\* self.index[name]
IndexAt(o, name) == CHOOSE e \in o.index : e.name = name

\* self.index[name] = entry
SetIndex(o, e) ==
  [o EXCEPT !.index = {x \in @ : x.name # e.name} \cup {e}]

\* The state a call works on: the objects, the encodings inserted, the
\* exception raised if any, the object (ret), the answer (go) or the node
\* (item, the entry of the index that holds it) returned, and the three lists
\* of the FileListResult.
VdState(objs, inserted) ==
  [objs |-> objs, inserted |-> inserted, raised |-> None, ret |-> 0,
   go |-> FALSE, item |-> <<>>, overwritten |-> <<>>, ignored |-> <<>>,
   files_written |-> <<>>, filelist |-> {}]

VdRaise(st, error) == [st EXCEPT !.raised = error]

\* The entries in descending order of their paths.
RECURSIVE sorted_Descending(_)
sorted_Descending(files) ==
  IF files = {} THEN <<>>
  ELSE LET last == CHOOSE e \in files :
                     \A x \in files \ {e} :
                       StringLess(PathString(x.path), PathString(e.path))
       IN  <<last>> \o sorted_Descending(files \ {last})

\* sorted(files), line 388: the entries by their relative paths as strings.
RECURSIVE sorted(_)
sorted(files) ==
  IF files = {} THEN <<>>
  ELSE LET first == CHOOSE e \in files :
                      \A x \in files \ {e} :
                        StringLess(PathString(e.path), PathString(x.path))
       IN  <<first>> \o sorted(files \ {first})

\* _add_new_blank_directory, lines 136-147.  The node is added to directories
\* before the index is looked at.
_add_new_blank_directory(st, id, name) ==
  LET o == st.objs[id]
      new == Len(st.objs) + 1
      pos == Len(o.directories) + 1
      added == [o EXCEPT !.directories = Append(@, [name |-> name, digest |-> <<>>])]
  IN  IF InIndex(o, name)
        THEN VdRaise([st EXCEPT !.objs[id] = added], "VirtualDirectoryError")
        ELSE [st EXCEPT
                !.objs = Append(
                  [@ EXCEPT ![id] =
                     SetIndex([added EXCEPT !.directories[pos].digest = <<EmptyDirectory>>],
                              IndexEntry(name, "directories", pos, new, FALSE))],
                  NewDirectory(id, name)),
                !.inserted = @ \cup {EmptyDirectory},
                !.ret = new]

\* _add_directory, lines 176-193.
_add_directory(st, id, name) ==
  LET o == st.objs[id]
      new == Len(st.objs) + 1
      pos == Len(o.directories) + 1
  IN  IF InIndex(o, name)
        THEN LET e == IndexAt(o, name)
             IN  IF e.child = 0
                   THEN VdRaise(st, "VirtualDirectoryError")
                   ELSE [st EXCEPT
                           !.objs[id] =
                             SetIndex([o EXCEPT !.directories[e.pos] =
                                         [name |-> name, digest |-> <<EmptyDirectory>>]],
                                      IndexEntry(name, "directories", e.pos, e.child, FALSE)),
                           !.inserted = @ \cup {EmptyDirectory},
                           !.ret = e.child]
        ELSE [st EXCEPT
                !.objs = Append(
                  [@ EXCEPT ![id] =
                     SetIndex([o EXCEPT !.directories =
                                 Append(@, [name |-> name, digest |-> <<EmptyDirectory>>])],
                              IndexEntry(name, "directories", pos, new, FALSE))],
                  NewDirectory(id, name)),
                !.inserted = @ \cup {EmptyDirectory},
                !.ret = new]

\* _add_new_file, lines 195-201: files.add() appends the node.
_add_new_file(st, id, filename, digest, is_executable) ==
  LET o == st.objs[id]
      pos == Len(o.files) + 1
  IN  [st EXCEPT !.objs[id] =
         SetIndex([o EXCEPT !.files =
                     Append(@, [name |-> filename, digest |-> digest,
                                is_executable |-> is_executable])],
                  IndexEntry(filename, "files", pos, 0, InIndex(o, filename)))]

\* _add_new_link, lines 203-212.
_add_new_link(st, id, filename, target) ==
  LET o == st.objs[id]
      pos == Len(o.symlinks) + 1
  IN  IF InIndex(o, filename)
        THEN LET e == IndexAt(o, filename)
             IN  IF e.kind # "symlinks"
                   THEN VdRaise(st, "AttributeError")
                   ELSE [st EXCEPT !.objs[id] =
                           SetIndex([o EXCEPT !.symlinks[e.pos] =
                                       [name |-> filename, target |-> target]],
                                    IndexEntry(filename, "symlinks", e.pos, 0, TRUE))]
        ELSE [st EXCEPT !.objs[id] =
                SetIndex([o EXCEPT !.symlinks =
                            Append(@, [name |-> filename, target |-> target])],
                         IndexEntry(filename, "symlinks", pos, 0, FALSE))]

\* delete_entry, lines 214-219.  "name in collection" compares a string with
\* the nodes of the list and is never true, so that no node is removed: only
\* the entry of the index goes.
delete_entry(st, id, name) ==
  [st EXCEPT !.objs[id].index = {e \in @ : e.name # name}]

\* descend, lines 221-273.  The last branch of an existing entry formats its
\* message with the undefined name "entry".
RECURSIVE descend(_, _, _, _)
descend(st, id, subdirectory_spec, create) ==
  LET o == st.objs[id]
      name == subdirectory_spec[1]
  IN  IF st.raised # None THEN st
      ELSE IF subdirectory_spec = <<>> THEN [st EXCEPT !.ret = id]
      ELSE IF name = "" THEN descend(st, id, Tail(subdirectory_spec), create)
      ELSE IF InIndex(o, name)
        THEN LET e == IndexAt(o, name)
             IN  IF e.child # 0
                   THEN descend(st, e.child, Tail(subdirectory_spec), create)
                 ELSE IF e.kind = "symlinks"
                   THEN VdRaise(st, "VirtualDirectoryError")
                 ELSE VdRaise(st, "NameError")
      ELSE IF create
        THEN LET made == _add_new_blank_directory(st, id, name)
             IN  IF made.raised # None THEN made
                 ELSE descend(made, made.ret, Tail(subdirectory_spec), create)
      ELSE VdRaise(st, "VirtualDirectoryError")

\* find_root, lines 275-281.
RECURSIVE find_root(_, _)
find_root(objs, id) ==
  IF objs[id].parent = 0 THEN id ELSE find_root(objs, objs[id].parent)

\* The name is looked up in the directory reached so far.
LookupIn_Current(id, directory) == directory

\* find_pb2_entry is called on self, line 297: the name is looked up in the
\* directory the resolution started from, whatever directory was reached.
LookupIn(id, directory) == id

\* The loop of _resolve_symlink, lines 293-307, at components[i] with
\* directory reached so far (0 for None).  A broken link raises through the
\* misspelt name VirtualDirectoryErorr.  What is returned is a directory
\* (ret, go TRUE) or a FileNode (item, go FALSE).
RECURSIVE ResolveComponents(_, _, _, _, _)
ResolveComponents(st, id, directory, components, i) ==
  IF st.raised # None THEN st
  ELSE IF i > Len(components)
    THEN [st EXCEPT !.ret = directory, !.go = directory # 0]
  ELSE
    LET c == components[i]
        looked == IF LookupIn(id, directory) = 0 THEN {}
                  ELSE st.objs[LookupIn(id, directory)].index
    IN  IF c = ".."
          THEN IF directory = 0 THEN VdRaise(st, "AttributeError")
               ELSE ResolveComponents(st, id, st.objs[directory].parent,
                                      components, i + 1)
        ELSE IF LookupIn(id, directory) = 0 THEN VdRaise(st, "AttributeError")
        ELSE IF \A e \in looked : e.name # c THEN VdRaise(st, "NameError")
        ELSE LET e == CHOOSE x \in looked : x.name = c
             IN  IF e.kind = "files"
                   THEN [st EXCEPT !.item = <<e>>, !.ret = 0, !.go = FALSE]
                 ELSE IF e.kind = "symlinks"
                   THEN VdRaise(st, "VirtualDirectoryError")
                 ELSE IF directory = 0 THEN VdRaise(st, "AttributeError")
                 ELSE LET down == descend(st, directory, <<c>>, TRUE)
                      IN  ResolveComponents(down, id, down.ret, components, i + 1)

\* _resolve_symlink, lines 283-308.
_resolve_symlink(st, id, target) ==
  LET absolute == target # <<>> /\ target[1] = ""
      start == IF absolute THEN find_root(st.objs, id) ELSE id
  IN  ResolveComponents(st, id, start, target, 1)

\* symlink_target_is_directory, lines 466-468: go is the answer.
symlink_target_is_directory(st, id, target) ==
  _resolve_symlink(st, id, target)

\* The loop of _resolve_symlink_or_directory, lines 334-338.
RECURSIVE DescendComponents(_, _, _, _)
DescendComponents(st, directory, components, i) ==
  IF st.raised # None THEN st
  ELSE IF i > Len(components) THEN [st EXCEPT !.ret = directory]
  ELSE IF directory = 0 THEN VdRaise(st, "AttributeError")
  ELSE IF components[i] = ".."
    THEN DescendComponents(st, st.objs[directory].parent, components, i + 1)
  ELSE LET down == descend(st, directory, <<components[i]>>, TRUE)
       IN  DescendComponents(down, down.ret, components, i + 1)

\* _resolve_symlink_or_directory, lines 310-339: a file node has no target.
_resolve_symlink_or_directory(st, id, name) ==
  LET o == st.objs[id]
      e == IndexAt(o, name)
      target == o.symlinks[e.pos].target
      absolute == target # <<>> /\ target[1] = ""
      start == IF absolute THEN find_root(st.objs, id) ELSE id
  IN  IF e.child # 0 THEN [st EXCEPT !.ret = e.child]
      ELSE IF e.kind # "symlinks" THEN VdRaise(st, "AttributeError")
      ELSE DescendComponents(st, start, target, 1)

\* _check_replacement, lines 341-368: go is the answer.
_check_replacement(st, id, name, path_prefix) ==
  LET o == st.objs[id]
      relative_pathname == path_prefix \o <<name>>
      deleted == [delete_entry(st, id, name) EXCEPT
                    !.overwritten = Append(@, relative_pathname), !.go = TRUE]
  IN  IF ~InIndex(o, name) THEN [st EXCEPT !.go = TRUE]
      ELSE LET e == IndexAt(o, name)
           IN  IF e.kind \in {"files", "symlinks"} THEN deleted
               ELSE IF e.child = 0 THEN VdRaise(st, "AttributeError")
               ELSE IF st.objs[e.child].index = {} THEN deleted
               ELSE [st EXCEPT !.ignored = Append(@, relative_pathname),
                               !.go = FALSE]

\* _import_directory_recursively and _import_files_from_directory, lines
\* 370-415, called alternately as the tree is descended.
RECURSIVE _import_directory_recursively(_, _, _, _, _)
RECURSIVE _import_files_from_directory(_, _, _, _)
RECURSIVE ImportEntries(_, _, _, _, _)

_import_directory_recursively(st, id, directory_name, remaining, path_prefix) ==
  LET subdir == IF InIndex(st.objs[id], directory_name)
                  THEN _resolve_symlink_or_directory(st, id, directory_name)
                  ELSE _add_directory(st, id, directory_name)
  IN  IF subdir.raised # None THEN subdir
      ELSE _import_files_from_directory(subdir, subdir.ret, {remaining},
                                        path_prefix \o <<directory_name>>)

\* The body of the loop of _import_files_from_directory for entries[i].
ImportEntries(st, id, entries, i, path_prefix) ==
  IF st.raised # None \/ i > Len(entries) THEN st
  ELSE
    LET entry == entries[i]
        name == entry.path[1]
        checked == _check_replacement(st, id, name, path_prefix)
        written(s) == IF s.raised # None THEN s
                      ELSE [s EXCEPT !.files_written =
                              Append(@, path_prefix \o <<name>>)]
        done ==
          IF Len(entry.path) > 1
            THEN _import_directory_recursively(
                   st, id, name, [entry EXCEPT !.path = Tail(@)], path_prefix)
          ELSE IF entry.kind = "link"
            THEN IF checked.raised = None /\ checked.go
                   THEN written(_add_new_link(checked, id, name, entry.target))
                   ELSE checked
          ELSE IF entry.kind = "dir"
            THEN IF InIndex(st.objs[id], name) THEN st
                 ELSE _add_directory(st, id, name)
          ELSE IF checked.raised = None /\ checked.go
            THEN written(_add_new_file(checked, id, name, entry.digest,
                                       entry.is_executable))
            ELSE checked
    IN  ImportEntries(done, id, entries, i + 1, path_prefix)

_import_files_from_directory(st, id, files, path_prefix) ==
  ImportEntries(st, id, sorted(files), 1, path_prefix)

\* _recalculate_recursing_down, lines 118-134.  owner and pos name the
\* DirectoryNode passed as parent (owner 0 for none): add_object fills its
\* digest.
RECURSIVE _recalculate_recursing_down(_, _, _, _)
RECURSIVE RecalculateChildren(_, _, _)

RecalculateChildren(st, id, k) ==
  IF st.raised # None \/ k > Len(st.objs[id].directories) THEN st
  ELSE
    LET o == st.objs[id]
        entry == o.directories[k]
    IN  IF ~InIndex(o, entry.name) THEN VdRaise(st, "KeyError")
        ELSE IF IndexAt(o, entry.name).child = 0 THEN VdRaise(st, "AttributeError")
        ELSE RecalculateChildren(
               _recalculate_recursing_down(st, IndexAt(o, entry.name).child, id, k),
               id, k + 1)

_recalculate_recursing_down(st, id, owner, pos) ==
  LET below == RecalculateChildren(st, id, 1)
      buffer == Encoding(below.objs[id])
      encoded == [below EXCEPT !.objs[id].ref = <<buffer>>,
                              !.inserted = @ \cup {buffer}]
  IN  IF below.raised # None THEN below
      ELSE IF owner = 0 THEN encoded
      ELSE [encoded EXCEPT !.objs[owner].directories[pos].digest = <<buffer>>]

\* The entry of the caller in this directory gets the digest of the caller,
\* lines 112-114: the node that the index holds under the filename of the
\* caller.
UpdateCaller(st, id, caller) ==
  LET o == st.objs[id]
      name == st.objs[caller].filename
      buffer == Encoding(st.objs[caller])
      e == IndexAt(o, name)
  IN  IF ~InIndex(o, name) \/ e.kind = "symlinks" THEN VdRaise(st, "AttributeError")
      ELSE IF e.kind = "files"
        THEN [st EXCEPT !.objs[id].files[e.pos].digest = <<buffer>>,
                        !.inserted = @ \cup {buffer}]
      ELSE [st EXCEPT !.objs[id].directories[e.pos].digest = <<buffer>>,
                      !.inserted = @ \cup {buffer}]

\* Lines 111-114 as written: this directory is encoded and its ref set, and
\* only then is the digest of the caller written into its entry.
RecalculateUp(st, id, caller) ==
  LET buffer == Encoding(st.objs[id])
      encoded == [st EXCEPT !.objs[id].ref = <<buffer>>,
                           !.inserted = @ \cup {buffer}]
  IN  IF caller = 0 THEN encoded ELSE UpdateCaller(encoded, id, caller)

\* _recalculate_recursing_up, lines 104-116.
RECURSIVE _recalculate_recursing_up(_, _, _)
_recalculate_recursing_up(st, id, caller) ==
  LET here == RecalculateUp(st, id, caller)
  IN  IF here.raised # None THEN here
      ELSE IF here.objs[id].parent = 0 THEN here
      ELSE _recalculate_recursing_up(here, here.objs[id].parent, id)

\* The objects that a caller can hold: the root and what descend reaches.
RECURSIVE Below(_, _)
Below(objs, id) ==
  {id} \cup UNION {Below(objs, e.child) : e \in {x \in objs[id].index : x.child # 0}}

Attached == IF vd_objects = <<>> THEN {} ELSE Below(vd_objects, 1)

\* What a call leaves behind: its arguments, what it raised or returned, the
\* objects as they were when it was made, the digest of the tree that was
\* last checked out, if any, and the call before it.
VdReturn(op, id, name, files, st) ==
  [op |-> op, node |-> id, name |-> name, files |-> files,
   raised |-> st.raised, ret |-> st.ret, go |-> st.go, item |-> st.item,
   overwritten |-> st.overwritten, ignored |-> st.ignored,
   files_written |-> st.files_written, before |-> vd_objects,
   checked_out |-> vd_result.checked_out, filelist |-> st.filelist,
   previous |-> <<vd_result.op, vd_result.node>>,
   source |-> <<>>, filter |-> <<>>]

NoVdReturn ==
  [op |-> None, node |-> 0, name |-> "", files |-> {}, raised |-> None,
   ret |-> 0, go |-> FALSE, item |-> <<>>, overwritten |-> <<>>,
   ignored |-> <<>>, files_written |-> <<>>, before |-> <<>>,
   checked_out |-> <<>>, filelist |-> {}, previous |-> <<>>,
   source |-> <<>>, filter |-> <<>>]

\* remove_item, called at lines 161 and 167, is not defined in
\* _casbaseddirectory.py; it is taken to do what the description of
\* create_directory says, "remove the existing entry": the node leaves its
\* list and the entry leaves the index.
remove_item(st, id, name) ==
  LET o == st.objs[id]
      e == IndexAt(o, name)
      without(nodes) == [i \in 1..(Len(nodes) - 1) |->
                           IF i < e.pos THEN nodes[i] ELSE nodes[i + 1]]
      moved == {IF x.kind = e.kind /\ x.pos > e.pos
                  THEN [x EXCEPT !.pos = @ - 1] ELSE x :
                x \in o.index \ {e}}
  IN  [st EXCEPT !.objs[id] =
         [o EXCEPT !.files = IF e.kind = "files" THEN without(@) ELSE @,
                   !.symlinks = IF e.kind = "symlinks" THEN without(@) ELSE @,
                   !.directories = IF e.kind = "directories" THEN without(@) ELSE @,
                   !.index = moved]]

\* create_directory, lines 149-168.
create_directory(st, id, name) ==
  LET o == st.objs[id]
      e == IndexAt(o, name)
      is_directory == symlink_target_is_directory(st, id, o.symlinks[e.pos].target)
  IN  IF InIndex(o, name) /\ e.kind = "files"
        THEN descend(remove_item(st, id, name), id, <<name>>, TRUE)
      ELSE IF InIndex(o, name) /\ e.kind = "symlinks"
        THEN IF is_directory.raised # None THEN is_directory
             ELSE IF is_directory.go THEN [is_directory EXCEPT !.ret = 0]
             ELSE descend(remove_item(is_directory, id, name), id, <<name>>, TRUE)
      ELSE descend(st, id, <<name>>, TRUE)

CreateDirectory(id, name) ==
  /\ vd_calls < MaxVdCalls
  /\ id \in Attached
  /\ LET st == create_directory(VdState(vd_objects, vd_inserted), id, name)
     IN  /\ vd_objects' = st.objs
         /\ vd_inserted' = st.inserted
         /\ vd_result' = VdReturn("create_directory", id, name, {}, st)
  /\ vd_calls' = vd_calls + 1
  /\ UNCHANGED nonvdir

\* import_files from a directory on disk, lines 600-661.
import_files(st, id, files) ==
  LET imported == _import_files_from_directory(st, id, files, <<>>)
      down == _recalculate_recursing_down(imported, id, 0, 0)
  IN  IF imported.raised # None THEN imported
      ELSE IF down.raised # None THEN down
      ELSE IF down.objs[id].parent = 0 THEN down
      ELSE _recalculate_recursing_up(down, down.objs[id].parent, id)

ImportFiles(id, files) ==
  /\ vd_calls < MaxVdCalls
  /\ id \in Attached
  /\ LET st == import_files(VdState(vd_objects, vd_inserted), id, files)
     IN  /\ vd_objects' = st.objs
         /\ vd_inserted' = st.inserted
         /\ vd_result' = VdReturn("import_files", id, "", files, st)
  /\ vd_calls' = vd_calls + 1
  /\ UNCHANGED nonvdir

\* A fresh CasBasedDirectory without ref, parent or filename.
InitVdir ==
  /\ CasParked
  /\ remote_objects = {}
  /\ FindParked
  /\ StoreParked
  /\ RefsParked
  /\ DiffParked
  /\ WalkParked
  /\ vd_objects = <<NewDirectory(0, "")>>
  /\ vd_inserted = {}
  /\ vd_result = NoVdReturn
  /\ vd_calls = 0

NextVdir ==
  \/ \E id \in 1..(2 * MaxVdCalls + 1), name \in {"a", "d"} :
       CreateDirectory(id, name)
  \/ \E id \in 1..(2 * MaxVdCalls + 1), files \in VdImports :
       ImportFiles(id, files)

SpecVdir == InitVdir /\ [][NextVdir]_vars

\* A list of nodes is strictly ascending by name.
Ascending(nodes) ==
  \A i \in 1..(Len(nodes) - 1) : NameRank(nodes[i].name) < NameRank(nodes[i + 1].name)

\* C27 (DIR-3): after any sequence of create_directory and import_files,
\* every Directory that was encoded and inserted has its files, directories
\* and symlinks each in strictly ascending order of name.
C27_ListsAscending ==
  \A d \in vd_inserted :
    Ascending(d.files) /\ Ascending(d.directories) /\ Ascending(d.symlinks)

\* The names of the nodes of the three lists of an object, one per node.
NodeNames(o) ==
  [i \in 1..Len(o.files) |-> o.files[i].name]
    \o [i \in 1..Len(o.directories) |-> o.directories[i].name]
    \o [i \in 1..Len(o.symlinks) |-> o.symlinks[i].name]

\* C28 (DIR-2): after any sequence of create_directory and import_files, in
\* every directory object no name occurs twice in the three lists of its
\* encoding, and the names of the lists are the keys of its index.
C28_NamesUnique ==
  \A id \in Attached :
    LET names == NodeNames(vd_objects[id])
    IN  /\ \A i, j \in 1..Len(names) : names[i] = names[j] => i = j
        /\ Range(names) = {e.name : e \in vd_objects[id].index}

\* C29 (VD-2, VD-3): in every reachable state each node of directories has an
\* entry of the index under its name that holds a child object whose filename
\* is that name and whose parent is this object, and every object other than
\* the root has a parent constructed before it.
C29_ChildrenIndexed ==
  /\ \A id \in Attached :
       \A k \in 1..Len(vd_objects[id].directories) :
         LET name == vd_objects[id].directories[k].name
             o == vd_objects[id]
         IN  /\ InIndex(o, name)
             /\ IndexAt(o, name).child # 0
             /\ vd_objects[IndexAt(o, name).child].filename = name
             /\ vd_objects[IndexAt(o, name).child].parent = id
  /\ \A id \in 1..Len(vd_objects) :
       /\ vd_objects[id].parent < id
       /\ vd_objects[id].parent = 0 <=> id = 1

\* The object and its ancestors, up to the root.
RECURSIVE Ancestors(_, _)
Ancestors(objs, id) ==
  IF id = 0 THEN {} ELSE {id} \cup Ancestors(objs, objs[id].parent)

\* C30: after import_files on an object N at any depth has returned, N and
\* every ancestor P of N have as ref the digest of their current encoding,
\* and the DirectoryNode of the child on the path to N carries the ref of
\* that child.
C30_MerkleConsistent ==
  (vd_result.op = "import_files" /\ vd_result.raised = None) =>
    \A id \in Ancestors(vd_objects, vd_result.node) :
      LET o == vd_objects[id]
          p == vd_objects[o.parent]
      IN  /\ o.ref = <<Encoding(o)>>
          /\ o.parent # 0 =>
               /\ InIndex(p, o.filename)
               /\ IndexAt(p, o.filename).kind = "directories"
               /\ p.directories[IndexAt(p, o.filename).pos].digest = o.ref

-----------------------------------------------------------------------------
\* _check_replacement called on its own, lines 341-368, on a tree that
\* create_directory and import_files have built.

CheckReplacement(id, name) ==
  /\ vd_calls < MaxVdCalls
  /\ id \in Attached
  /\ LET st == _check_replacement(VdState(vd_objects, vd_inserted), id, name, <<>>)
     IN  /\ vd_objects' = st.objs
         /\ vd_inserted' = st.inserted
         /\ vd_result' = VdReturn("_check_replacement", id, name, {}, st)
  /\ vd_calls' = vd_calls + 1
  /\ UNCHANGED nonvdir

NextReplace ==
  \/ /\ vd_result.op # "_check_replacement"
     /\ NextVdir
  \/ \E id \in 1..(2 * MaxVdCalls + 1), name \in Range(VdNames) :
       CheckReplacement(id, name)

SpecReplace == InitVdir /\ [][NextReplace]_vars

\* The entry called name before the last call, in the directory it was made on.
Existing ==
  LET o == vd_result.before[vd_result.node]
  IN  IF InIndex(o, vd_result.name) THEN <<IndexAt(o, vd_result.name)>> ELSE <<>>

\* The directory of the existing entry held entries when the call was made.
ExistingNonEmpty ==
  /\ Existing # <<>>
  /\ Existing[1].child # 0
  /\ vd_result.before[Existing[1].child].index # {}

\* C31: _check_replacement(name) returns True and records nothing when name
\* is absent; deletes the entry, appends the path to overwritten and returns
\* True when name is a file, a symlink or an empty directory; appends the path
\* to ignored, returns False and changes nothing when name is a directory
\* that is not empty.
C31_OverwritePolicy ==
  (vd_result.op = "_check_replacement" /\ vd_result.raised = None) =>
    LET o == vd_objects[vd_result.node]
        name == vd_result.name
    IN  IF Existing = <<>>
          THEN /\ vd_result.go
               /\ vd_result.overwritten = <<>> /\ vd_result.ignored = <<>>
               /\ vd_objects = vd_result.before
        ELSE IF ExistingNonEmpty
          THEN /\ ~vd_result.go
               /\ vd_result.overwritten = <<>>
               /\ vd_result.ignored = <<<<name>>>>
               /\ vd_objects = vd_result.before
        ELSE /\ vd_result.go
             /\ vd_result.overwritten = <<<<name>>>>
             /\ vd_result.ignored = <<>>
             /\ ~InIndex(o, name)
             /\ name \notin Range(NodeNames(o))

-----------------------------------------------------------------------------
\* import_files over entries of another type.

\* The entries of the last import whose target existed as an incompatible
\* type when the call was made: a file or link over a directory that is not
\* empty, or a path whose first segment is a regular file.
Incompatible ==
  LET o == vd_result.before[vd_result.node]
  IN  {e \in vd_result.files :
         /\ InIndex(o, e.path[1])
         /\ LET x == IndexAt(o, e.path[1])
            IN  \/ /\ Len(e.path) = 1 /\ e.kind \in {"file", "link"}
                   /\ x.child # 0
                   /\ vd_result.before[x.child].index # {}
                \/ Len(e.path) > 1 /\ x.kind = "files"}

\* C32: import_files never aborts because a target exists as an incompatible
\* type: the call returns, and the path of every such entry is in the ignored
\* list of its result.
C32_ConflictsRecorded ==
  (vd_result.op = "import_files" /\ Incompatible # {}) =>
    /\ vd_result.raised = None
    /\ \A e \in Incompatible : e.path \in Range(vd_result.ignored)

-----------------------------------------------------------------------------
\* create_directory over an existing entry.

\* recompute_down on a directory and recompute_up through its ancestors, as
\* import_files runs them, lines 655-657: the ref of the root afterwards.
RecomputedRoot(objs, id) ==
  LET down == _recalculate_recursing_down(VdState(objs, {}), id, 0, 0)
      up == IF down.raised # None \/ down.objs[id].parent = 0 THEN down
            ELSE _recalculate_recursing_up(down, down.objs[id].parent, id)
  IN  up.objs[1].ref

\* The last call was create_directory(name) and name was a file, or a link
\* that was resolved to a file.
CreatedOverFile ==
  /\ vd_result.op = "create_directory"
  /\ Existing # <<>>
  /\ \/ Existing[1].kind = "files"
     \/ /\ Existing[1].kind = "symlinks"
        /\ vd_result.raised = None
        /\ vd_result.item # <<>>

\* The last call was create_directory(name) and name was a subdirectory.
CreatedOverDirectory ==
  /\ vd_result.op = "create_directory"
  /\ Existing # <<>>
  /\ Existing[1].kind = "directories"
  /\ Existing[1].child # 0

\* C33: create_directory(name) over a file or a link to a file removes the
\* entry and leaves name an empty subdirectory, and the digest of the root
\* after recompute_down and recompute_up differs from the one before;
\* create_directory(name) over a subdirectory returns that subdirectory and
\* changes nothing.
C33_CreateDirectory ==
  LET o == vd_objects[vd_result.node]
      name == vd_result.name
  IN  /\ CreatedOverFile =>
           /\ vd_result.raised = None
           /\ InIndex(o, name)
           /\ IndexAt(o, name).kind = "directories"
           /\ IndexAt(o, name).child = vd_result.ret
           /\ vd_result.ret # 0
           /\ Encoding(vd_objects[vd_result.ret]) = EmptyDirectory
           /\ \A i \in 1..Len(o.files) : o.files[i].name # name
           /\ \A i \in 1..Len(o.symlinks) : o.symlinks[i].name # name
           /\ RecomputedRoot(vd_objects, vd_result.node)
                # RecomputedRoot(vd_result.before, vd_result.node)
      /\ CreatedOverDirectory =>
           /\ vd_result.raised = None
           /\ vd_result.ret = Existing[1].child
           /\ vd_objects = vd_result.before

-----------------------------------------------------------------------------
\* Resolution of symlinks: _resolve_symlink called on its own, and
\* create_directory over a symlink, on trees that hold links with targets of
\* one and of several components.

\* The sources imported to build these trees.
VdLinkImports ==
  { {ImportLink(<<"a">>, <<"d">>)},
    {ImportLink(<<"a">>, <<"d", "b">>)},
    {ImportLink(<<"a">>, <<"d", "b">>), ImportFile(<<"b">>, "c2", FALSE)},
    {ImportLink(<<"a">>, <<"..", "b">>)},
    {ImportLink(<<"a">>, <<"..">>)},
    {ImportLink(<<"a">>, <<"", "d">>)},
    {ImportLink(<<"b">>, <<"a">>)},
    {ImportDir(<<"d", "b">>)},
    {ImportFile(<<"b">>, "c1", FALSE)} }

\* _resolve_symlink(symlink) for the symlink called name, lines 283-308.
ResolveSymlink(id, name) ==
  /\ vd_calls < MaxVdCalls
  /\ id \in Attached
  /\ InIndex(vd_objects[id], name)
  /\ IndexAt(vd_objects[id], name).kind = "symlinks"
  /\ LET o == vd_objects[id]
         target == o.symlinks[IndexAt(o, name).pos].target
         st == _resolve_symlink(VdState(vd_objects, vd_inserted), id, target)
     IN  /\ vd_objects' = st.objs
         /\ vd_inserted' = st.inserted
         /\ vd_result' = VdReturn("_resolve_symlink", id, name, {}, st)
  /\ vd_calls' = vd_calls + 1
  /\ UNCHANGED nonvdir

NextResolve ==
  \/ \E id \in 1..(2 * MaxVdCalls + 1), files \in VdLinkImports :
       ImportFiles(id, files)
  \/ \E id \in 1..(2 * MaxVdCalls + 1), name \in {"a", "b"} :
       ResolveSymlink(id, name)
  \/ \E id \in 1..(2 * MaxVdCalls + 1), name \in {"a", "b"} :
       CreateDirectory(id, name)

SpecResolve == InitVdir /\ [][NextResolve]_vars

\* The resolution as the claim states it, from components[i] on with the
\* directory reached so far: <<"error">>, <<"file", node>> or
\* <<"directory", object>>.
RECURSIVE WalkAsStated(_, _, _, _)
WalkAsStated(objs, directory, components, i) ==
  IF i > Len(components) THEN <<"directory", directory>>
  ELSE IF components[i] = ".."
    THEN IF objs[directory].parent = 0 THEN <<"error">>
         ELSE WalkAsStated(objs, objs[directory].parent, components, i + 1)
  ELSE IF ~InIndex(objs[directory], components[i]) THEN <<"error">>
  ELSE LET e == IndexAt(objs[directory], components[i])
       IN  IF e.kind = "symlinks" THEN <<"error">>
           ELSE IF e.kind = "files"
             THEN <<"file", objs[directory].files[e.pos]>>
           ELSE IF e.child = 0 THEN <<"error">>
           ELSE WalkAsStated(objs, e.child, components, i + 1)

\* An absolute target starts at the root and its first component is the
\* empty string before the separator.
ResolveAsStated(objs, id, target) ==
  IF target # <<>> /\ target[1] = ""
    THEN WalkAsStated(objs, find_root(objs, id), target, 2)
    ELSE WalkAsStated(objs, id, target, 1)

\* The target of the symlink that the last call was about.
LastTarget ==
  LET o == vd_result.before[vd_result.node]
  IN  o.symlinks[IndexAt(o, vd_result.name).pos].target

\* What the last call of _resolve_symlink came to.
LastResolved ==
  IF vd_result.raised # None THEN <<"error">>
  ELSE IF vd_result.item # <<>>
    THEN <<"file", vd_result.before[vd_result.node].files[vd_result.item[1].pos]>>
  ELSE <<"directory", vd_result.ret>>

\* The last call was create_directory(name), name was a symlink and its
\* target named a directory.
CreatedOverLinkToDirectory ==
  /\ vd_result.op = "create_directory"
  /\ Existing # <<>>
  /\ Existing[1].kind = "symlinks"
  /\ ResolveAsStated(vd_result.before, vd_result.node, LastTarget)[1] = "directory"

\* C34: create_directory(name) where name is a symlink whose target resolves
\* to a directory is a no-op: the call returns, and no object of the tree
\* changed, so that name is the same symlink, the target directory is as it
\* was and the digest of the root is unchanged.
C34_LinkToDirectoryKept ==
  CreatedOverLinkToDirectory =>
    /\ vd_result.raised = None
    /\ vd_objects = vd_result.before

\* C37: _resolve_symlink walks the target segment by segment from the start
\* directory, looking each name up in the directory reached so far: ".."
\* moves to the parent and fails at the root, a symlink on the way fails, a
\* file node ends the resolution and a directory node continues it.
C37_ResolveBySegments ==
  vd_result.op = "_resolve_symlink" =>
    LastResolved = ResolveAsStated(vd_result.before, vd_result.node, LastTarget)

-----------------------------------------------------------------------------
\* Round trip: CASCache.checkout of a tree into an empty directory, lines
\* 148-175, and import_files of that directory into a fresh CasBasedDirectory.

\* The valid trees of depth two at most over the file f, the link a and the
\* directories d and d-x, each list ascending by name.
RtFiles ==
  { <<>>,
    <<[name |-> "f", digest |-> <<[blob |-> "c1"]>>, is_executable |-> FALSE]>>,
    <<[name |-> "f", digest |-> <<[blob |-> "c1"]>>, is_executable |-> TRUE]>> }

RtLinks == { <<>>, <<[name |-> "a", target |-> <<"f">>]>> }

RtLeaves ==
  {[files |-> fs, directories |-> <<>>, symlinks |-> ls] :
     fs \in RtFiles, ls \in RtLinks}

RtDirectories ==
  {<<>>}
    \cup {<<[name |-> n, digest |-> <<l>>]>> : n \in {"d", "d-x"}, l \in RtLeaves}
    \cup {<<[name |-> "d", digest |-> <<l>>], [name |-> "d-x", digest |-> <<m>>]>> :
            l \in RtLeaves, m \in RtLeaves}

RtTrees ==
  {[files |-> fs, directories |-> ds, symlinks |-> ls] :
     fs \in RtFiles, ds \in RtDirectories, ls \in RtLinks}

\* checkout(dest, tree), lines 148-175: what is on disk below the destination
\* afterwards, by paths relative to the destination of the outermost call.
RECURSIVE checkout_directory(_, _)
checkout_directory(dest, directory) ==
  {ImportFile(dest \o <<directory.files[i].name>>,
              directory.files[i].digest[1].blob,
              directory.files[i].is_executable) :
     i \in 1..Len(directory.files)}
    \cup UNION {{ImportDir(dest \o <<directory.directories[i].name>>)}
                  \cup checkout_directory(dest \o <<directory.directories[i].name>>,
                                          directory.directories[i].digest[1]) :
                i \in 1..Len(directory.directories)}
    \cup {ImportLink(dest \o <<directory.symlinks[i].name>>,
                     directory.symlinks[i].target) :
            i \in 1..Len(directory.symlinks)}

\* utils.list_relative_paths(directory): the walk of the directory, every
\* entry below it by its relative path.
list_relative_paths(on_disk) == {e \in on_disk : e.path # <<>>}

\* checkout of a tree into an empty temporary directory.
Checkout(directory) ==
  /\ vd_calls = 0
  /\ vd_result' = [NoVdReturn EXCEPT
                     !.op = "checkout",
                     !.files = list_relative_paths(checkout_directory(<<>>, directory)),
                     !.checked_out = <<directory>>]
  /\ vd_calls' = vd_calls + 1
  /\ UNCHANGED <<vd_objects, vd_inserted>>
  /\ UNCHANGED nonvdir

NextRoundTrip ==
  \/ \E directory \in RtTrees : Checkout(directory)
  \/ /\ vd_result.op = "checkout"
     /\ ImportFiles(1, vd_result.files)

SpecRoundTrip == InitVdir /\ [][NextRoundTrip]_vars

-----------------------------------------------------------------------------
\* mark_unmodified and list_modified_paths, lines 725-748.  The index is an
\* OrderedDict; the model keeps the paths that are listed as a set.

\* list_relative_paths, lines 750-766.
RECURSIVE dir_list_relative_paths(_, _)
dir_list_relative_paths(objs, id) ==
  UNION {IF e.child # 0
           THEN {<<e.name>>}
                  \cup {<<e.name>> \o x : x \in dir_list_relative_paths(objs, e.child)}
           ELSE {<<e.name>>} :
         e \in objs[id].index}

\* list_modified_paths, lines 734-748: for a subdirectory the paths are those
\* of list_relative_paths.
list_modified_paths(objs, id) ==
  UNION {IF e.child # 0
           THEN {<<e.name>> \o x : x \in dir_list_relative_paths(objs, e.child)}
           ELSE IF e.kind = "files" /\ e.modified THEN {<<e.name>>}
           ELSE {} :
         e \in objs[id].index}

\* mark_unmodified, lines 725-732.
RECURSIVE mark_unmodified(_, _, _)
RECURSIVE MarkChildren(_, _)
MarkChildren(objs, children) ==
  IF children = {} THEN objs
  ELSE LET c == CHOOSE x \in children : TRUE
       IN  MarkChildren(mark_unmodified(objs, c, 0), children \ {c})

mark_unmodified(objs, id, unused) ==
  MarkChildren(
    [objs EXCEPT ![id].index = {[e EXCEPT !.modified = FALSE] : e \in @}],
    {e.child : e \in {x \in objs[id].index : x.child # 0}})

MarkUnmodified(id) ==
  /\ vd_calls < MaxVdCalls
  /\ id \in Attached
  /\ LET st == [VdState(vd_objects, vd_inserted) EXCEPT
                  !.objs = mark_unmodified(vd_objects, id, 0)]
     IN  /\ vd_objects' = st.objs
         /\ vd_inserted' = st.inserted
         /\ vd_result' = VdReturn("mark_unmodified", id, "", {}, st)
  /\ vd_calls' = vd_calls + 1
  /\ UNCHANGED nonvdir

ListModifiedPaths(id) ==
  /\ vd_calls < MaxVdCalls
  /\ id \in Attached
  /\ LET st == [VdState(vd_objects, vd_inserted) EXCEPT
                  !.filelist = list_modified_paths(vd_objects, id)]
     IN  vd_result' = VdReturn("list_modified_paths", id, "", {}, st)
  /\ vd_calls' = vd_calls + 1
  /\ UNCHANGED <<vd_objects, vd_inserted>>
  /\ UNCHANGED nonvdir

NextModified ==
  \/ \E id \in 1..(2 * MaxVdCalls + 1), files \in VdImports :
       ImportFiles(id, files)
  \/ \E id \in 1..(2 * MaxVdCalls + 1) : MarkUnmodified(id)
  \/ \E id \in 1..(2 * MaxVdCalls + 1) : ListModifiedPaths(id)

SpecModified == InitVdir /\ [][NextModified]_vars

\* The objects without the modified flags of their index entries.
Unflagged(objs) ==
  [i \in 1..Len(objs) |->
     [objs[i] EXCEPT !.index = {[e EXCEPT !.modified = FALSE] : e \in @}]]

\* C36: list_modified_paths called right after mark_unmodified on the same
\* directory returns the empty list, for trees with non-empty subdirectories
\* too; a file that an import wrote over an existing entry of the same name
\* is listed as modified after that import; mark_unmodified changes no
\* digest (nothing but the modified flags).
C36_ModifiedPaths ==
  /\ (/\ vd_result.op = "list_modified_paths"
      /\ vd_result.previous = <<"mark_unmodified", vd_result.node>>)
       => vd_result.filelist = {}
  /\ (vd_result.op = "import_files" /\ vd_result.raised = None) =>
       \A i \in 1..Len(vd_result.overwritten) :
         LET path == vd_result.overwritten[i]
             o == vd_objects[vd_result.node]
         IN  (/\ Len(path) = 1
              /\ InIndex(o, path[1])
              /\ IndexAt(o, path[1]).kind = "files")
               => path \in list_modified_paths(vd_objects, vd_result.node)
  /\ vd_result.op = "mark_unmodified" =>
       Unflagged(vd_objects) = Unflagged(vd_result.before)

-----------------------------------------------------------------------------
\* import_files from another CasBasedDirectory, lines 470-598 and 622-634.
\* The source is given by the encoding of its tree: every list ascending by
\* name, the digest of a DirectoryNode holding the encoding of the child.

CasFile(name, blob) ==
  [name |-> name, digest |-> <<[blob |-> blob]>>, is_executable |-> FALSE]

CasTree(files, directories, symlinks) ==
  [files |-> files, directories |-> directories, symlinks |-> symlinks]

\* The source directories, each with the values of "files" it is imported
\* with: <<>> for None, else the list of relative paths in a sequence.
CasImports ==
  LET leaf == CasTree(<<CasFile("a", "c2")>>, <<>>, <<>>)
      nested == CasTree(<<>>, <<[name |-> "d", digest |-> <<leaf>>]>>, <<>>)
      blank == CasTree(<<>>, <<[name |-> "a", digest |-> <<EmptyDirectory>>]>>, <<>>)
      link == CasTree(<<>>, <<>>, <<[name |-> "a", target |-> <<"b">>]>>)
      both == CasTree(<<CasFile("a", "c2"), CasFile("b", "c1")>>, <<>>, <<>>)
  IN  { <<leaf, <<>>>>, <<leaf, << <<<<"a">>>> >>>>,
        <<nested, <<>>>>, <<nested, << <<<<"d", "a">>>> >>>>,
        <<nested, << <<<<"d">>, <<"d", "a">>>> >>>>,
        <<blank, <<>>>>, <<blank, << <<<<"a">>>> >>>>,
        <<link, <<>>>>, <<link, << <<<<"a">>>> >>>>,
        <<both, <<>>>>, <<both, << <<<<"b">>>> >>>> }

\* One statement after another: what the first leaves is worked out once and
\* handed to what follows.
Once(left, Following(_)) == CHOOSE after \in {Following(s) : s \in {left}} : TRUE

\* CasBasedDirectory(context, ref=ref, parent=parent, filename=filename) and
\* _populate_index, lines 74-103: the object and, before its files and links
\* are indexed, an object for each of its directories.  ret is the object.
RECURSIVE Populated(_, _, _, _)
RECURSIVE PopulateChildren(_, _, _)

PopulateChildren(st, id, k) ==
  IF st.raised # None \/ k > Len(st.objs[id].directories) THEN st
  ELSE
    LET entry == st.objs[id].directories[k]
    IN  Once(Populated(st, id, entry.name, entry.digest), LAMBDA made :
          IF made.raised # None THEN made
          ELSE PopulateChildren(
                 [made EXCEPT !.objs[id] =
                    SetIndex(@, IndexEntry(entry.name, "directories", k, made.ret,
                                           FALSE))],
                 id, k + 1))

Populated(st, parent, filename, digest) ==
  LET new == Len(st.objs) + 1
      read == IF digest = <<>> THEN EmptyDirectory ELSE digest[1]
      fresh == [NewDirectory(parent, filename) EXCEPT
                  !.files = read.files, !.directories = read.directories,
                  !.symlinks = read.symlinks, !.ref = digest]
      last(nodes, i) == \A j \in (i + 1)..Len(nodes) : nodes[j].name # nodes[i].name
      links == {IndexEntry(fresh.symlinks[i].name, "symlinks", i, 0, FALSE) :
                  i \in {j \in 1..Len(fresh.symlinks) : last(fresh.symlinks, j)}}
      regular == {IndexEntry(fresh.files[i].name, "files", i, 0, FALSE) :
                    i \in {j \in 1..Len(fresh.files) : last(fresh.files, j)}}
      over(es, by) == {e \in es : \A x \in by : x.name # e.name}
  IN  Once(PopulateChildren([st EXCEPT !.objs = Append(@, fresh)], new, 1),
           LAMBDA children :
             IF children.raised # None THEN children
             ELSE [children EXCEPT
                     !.objs[new].index = over(over(@, regular), links)
                                           \cup over(regular, links) \cup links,
                     !.ret = new])

\* export_files, lines 675-718: what is below to_directory afterwards.
RECURSIVE export_files(_, _)
export_files(to_directory, directory) ==
  UNION {{ImportDir(to_directory \o <<directory.directories[i].name>>)}
           \cup export_files(to_directory \o <<directory.directories[i].name>>,
                             directory.directories[i].digest[1]) :
         i \in 1..Len(directory.directories)}
    \cup {ImportFile(to_directory \o <<directory.files[i].name>>,
                     directory.files[i].digest[1].blob,
                     directory.files[i].is_executable) :
            i \in 1..Len(directory.files)}
    \cup {ImportLink(to_directory \o <<directory.symlinks[i].name>>,
                     directory.symlinks[i].target) :
            i \in 1..Len(directory.symlinks)}

\* _add_directory_from_node, lines 538-546: the assertion calls find_pb_entry,
\* which no class defines (the method is find_pb2_entry).
_add_directory_from_node(st, id, source_node) == VdRaise(st, "AttributeError")

\* _full_import_cas_into_cas, lines 548-588.  transfer_node_contents asserts
\* that the node found under the name is of the type of the source's node.
\* The names overwritten are appended to result.files_overwritten: they are
\* kept with the names that _check_replacement records as overwritten.
RECURSIVE _full_import_cas_into_cas(_, _, _, _)
RECURSIVE FullDirectories(_, _, _, _, _)
RECURSIVE FullLeaves(_, _, _, _, _, _)

FullDirectories(st, id, source_directory, k, path_prefix) ==
  IF st.raised # None \/ k > Len(source_directory.directories) THEN st
  ELSE
    LET entry == source_directory.directories[k]
        done ==
          IF InIndex(st.objs[id], entry.name)
            THEN Once(create_directory(st, id, entry.name), LAMBDA created :
                 Once(descend(created, id, <<entry.name>>, FALSE), LAMBDA dest_dir :
                   IF dest_dir.raised # None THEN dest_dir
                   ELSE _full_import_cas_into_cas(
                          dest_dir, dest_dir.ret, entry.digest[1],
                          path_prefix \o <<entry.name>>)))
            ELSE _add_directory_from_node(st, id, entry)
    IN  Once(done, LAMBDA next :
          FullDirectories(next, id, source_directory, k + 1, path_prefix))

FullLeaves(st, id, source_directory, collection, k, path_prefix) ==
  IF st.raised # None \/ k > Len(source_directory[collection]) THEN st
  ELSE
    LET entry == source_directory[collection][k]
        o == st.objs[id]
        relative_pathname == path_prefix \o <<entry.name>>
        existing_item == IndexAt(o, entry.name)
        pos == Len(o[collection]) + 1
        done ==
          IF InIndex(o, entry.name)
            THEN IF existing_item.kind # collection
                   THEN VdRaise([st EXCEPT !.overwritten = Append(@, relative_pathname)],
                                "AssertionError")
                   ELSE [st EXCEPT
                           !.overwritten = Append(@, relative_pathname),
                           !.objs[id] =
                             SetIndex([o EXCEPT ![collection][existing_item.pos] = entry],
                                      IndexEntry(entry.name, collection,
                                                 existing_item.pos, 0, TRUE)),
                           !.files_written = Append(@, relative_pathname)]
            ELSE [st EXCEPT
                    !.objs[id] =
                      SetIndex([o EXCEPT ![collection] = Append(@, entry)],
                               IndexEntry(entry.name, collection, pos, 0, FALSE)),
                    !.files_written = Append(@, relative_pathname)]
    IN  Once(done, LAMBDA next :
          FullLeaves(next, id, source_directory, collection, k + 1, path_prefix))

_full_import_cas_into_cas(st, id, source_directory, path_prefix) ==
  Once(FullDirectories(st, id, source_directory, 1, path_prefix), LAMBDA directories :
  Once(FullLeaves(directories, id, source_directory, "files", 1, path_prefix),
       LAMBDA regular :
         FullLeaves(regular, id, source_directory, "symlinks", 1, path_prefix)))

\* files_in_subdir, lines 457-464.
files_in_subdir(sorted_files, name) ==
  LET at == {i \in 1..Len(sorted_files) :
               Len(sorted_files[i]) > 1 /\ sorted_files[i][1] = name}
      nth(k) == CHOOSE i \in at : Cardinality({j \in at : j < i}) = k - 1
  IN  [k \in 1..Cardinality(at) |-> Tail(sorted_files[nth(k)])]

\* source_directory.index[f]: the list that holds the node named f and its
\* position there, <<>> where the source has no such entry.
SourceEntry(source_directory, f) ==
  LET held == {<<c, i>> \in {"files", "directories", "symlinks"} \X (1..2) :
                 /\ i <= Len(source_directory[c])
                 /\ source_directory[c][i].name = f}
  IN  IF held = {} THEN <<>> ELSE CHOOSE h \in held : TRUE

\* _partial_import_cas_into_cas, lines 470-516.  What _check_replacement
\* answers is not looked at.  The prefix handed down is the full name of the
\* entry of files that named the subdirectory first.
RECURSIVE _partial_import_cas_into_cas(_, _, _, _, _)
RECURSIVE PartialEntries(_, _, _, _, _, _, _)

PartialEntries(st, id, source_directory, files, i, processed_directories, path_prefix) ==
  IF st.raised # None \/ i > Len(files) THEN st
  ELSE
    LET f == files[i]
        fullname == path_prefix \o f
        name == f[1]
        held == SourceEntry(source_directory, name)
        item == source_directory[held[1]][held[2]]
        done ==
          IF Len(f) > 1
            THEN IF name \in processed_directories THEN st
                 ELSE
                   Once(create_directory(st, id, name), LAMBDA created :
                   Once(descend(created, id, <<name>>, FALSE), LAMBDA dest_subdir :
                     IF dest_subdir.raised # None THEN dest_subdir
                     ELSE IF held = <<>> \/ held[1] # "directories"
                       THEN VdRaise(dest_subdir, "VirtualDirectoryError")
                     ELSE _partial_import_cas_into_cas(
                            dest_subdir, dest_subdir.ret, item.digest[1],
                            files_in_subdir(files, name), fullname)))
          ELSE IF held = <<>> THEN VdRaise(st, "KeyError")
          ELSE IF held[1] = "directories" THEN create_directory(st, id, name)
          ELSE
            Once(_check_replacement(st, id, name, path_prefix), LAMBDA checked :
              LET o == checked.objs[id]
                  modified == \E k \in 1..Len(checked.overwritten) :
                                checked.overwritten[k] = fullname
              IN  IF checked.raised # None THEN checked
                  ELSE [checked EXCEPT
                          !.objs[id] =
                            SetIndex([o EXCEPT ![held[1]] = Append(@, item)],
                                     IndexEntry(name, held[1], Len(o[held[1]]) + 1,
                                                0, modified))])
    IN  Once(done, LAMBDA next :
          PartialEntries(next, id, source_directory, files, i + 1,
                         IF Len(f) > 1 THEN processed_directories \cup {name}
                         ELSE processed_directories,
                         path_prefix))

_partial_import_cas_into_cas(st, id, source_directory, files, path_prefix) ==
  PartialEntries(st, id, source_directory, files, 1, {}, path_prefix)

\* _import_cas_into_cas, lines 590-598.
_import_cas_into_cas(st, id, source_directory, files) ==
  IF files = <<>> THEN _full_import_cas_into_cas(st, id, source_directory, <<>>)
  ELSE _partial_import_cas_into_cas(st, id, source_directory, files[1], <<>>)

\* The entries of an exported directory that an import with files takes.
Listed(on_disk, files) ==
  IF files = <<>> THEN list_relative_paths(on_disk)
  ELSE {e \in on_disk : \E k \in 1..Len(files[1]) : files[1][k] = e.path}

\* import_files from a CasBasedDirectory, lines 600-661: the import, the same
\* import by way of a temporary directory into a duplicate built from
\* self.ref, and the recalculation.
import_files_cas(st, id, source_directory, files) ==
  LET tmpdir == export_files(<<>>, source_directory)
  IN
  Once(_import_cas_into_cas(st, id, source_directory, files), LAMBDA imported :
    IF imported.raised # None THEN imported ELSE
  Once(Populated(VdState(<<>>, imported.inserted), 0, "", imported.objs[id].ref),
       LAMBDA duplicate_cas :
    IF duplicate_cas.raised # None THEN VdRaise(imported, duplicate_cas.raised) ELSE
  Once(_import_files_from_directory(duplicate_cas, 1, Listed(tmpdir, files), <<>>),
       LAMBDA filed :
    IF filed.raised # None THEN VdRaise(imported, filed.raised) ELSE
  Once(_recalculate_recursing_down(filed, 1, 0, 0), LAMBDA rehashed :
    IF rehashed.raised # None THEN VdRaise(imported, rehashed.raised) ELSE
  Once(_recalculate_recursing_down(
         [imported EXCEPT !.inserted = rehashed.inserted], id, 0, 0), LAMBDA down :
    IF down.raised # None THEN down
    ELSE IF down.objs[id].parent = 0 THEN down
    ELSE _recalculate_recursing_up(down, down.objs[id].parent, id))))))

ImportCas(id, source_directory, files) ==
  /\ vd_calls < MaxVdCalls
  /\ id \in Attached
  /\ \E st \in {import_files_cas(VdState(vd_objects, vd_inserted), id,
                                  source_directory, files)} :
         /\ vd_objects' = st.objs
         /\ vd_inserted' = st.inserted
         /\ vd_result' = [VdReturn("import_files", id, "", {}, st) EXCEPT
                            !.source = <<source_directory>>, !.filter = files]
  /\ vd_calls' = vd_calls + 1
  /\ UNCHANGED nonvdir

NextCasImport ==
  \/ \E id \in 1..(2 * MaxVdCalls + 1), files \in VdImports :
       ImportFiles(id, files)
  \/ \E id \in 1..(2 * MaxVdCalls + 1), given \in CasImports :
       ImportCas(id, given[1], given[2])

SpecCasImport == InitVdir /\ [][NextCasImport]_vars

\* The tree below a directory as its index gives it: for each path, what the
\* entry is and what it holds.
RECURSIVE TreeBelow(_, _, _)
TreeBelow(objs, id, at) ==
  UNION {{<<at \o <<e.name>>, e.kind,
            IF e.kind = "directories" THEN <<>>
            ELSE <<objs[id][e.kind][e.pos]>>>>}
           \cup (IF e.child = 0 THEN {}
                 ELSE TreeBelow(objs, e.child, at \o <<e.name>>)) :
         e \in objs[id].index}

\* The same import by way of the filesystem: the source exported to a
\* directory and that directory imported where the call was made, into the
\* objects as they were before it.
ViaFilesystem ==
  import_files(VdState(vd_result.before, {}), vd_result.node,
               Listed(export_files(<<>>, vd_result.source[1]), vd_result.filter))

\* C38: an import from a CasBasedDirectory, with or without a list of files,
\* leaves the directory with the digest and the tree that exporting the
\* source to a filesystem directory and importing that directory into the
\* same destination leaves, names that collide with entries of another type
\* included.
C38_CasImportAsFilesystem ==
  (vd_result.op = "import_files" /\ vd_result.source # <<>>
     /\ ViaFilesystem.raised = None) =>
    /\ vd_result.raised = None
    /\ vd_objects[vd_result.node].ref = ViaFilesystem.objs[vd_result.node].ref
    /\ TreeBelow(vd_objects, vd_result.node, <<>>)
         = TreeBelow(ViaFilesystem.objs, vd_result.node, <<>>)

-----------------------------------------------------------------------------
\* The queues of _fetch_directory, lines 761-798 and 811-835.

\* C39: while _fetch_directory runs, every digest in fetch_queue other than
\* the root it started with is in the local store (appended by
\* _fetch_directory_node for a local or streamed directory, or moved from
\* fetch_next_queue once its batch was downloaded), every digest in
\* fetch_next_queue is in the pending batch, and no directory is both put in
\* a batch and fetched by an independent request.
C39_QueueInvariant ==
  /\ pc \in {"fetch_directory", "fetch_directory_node"} =>
       /\ \A i \in 1..Len(fetch_queue) :
            \/ fetch_queue[i] \in objects[self]
            \/ fetch_queue[i] = root /\ root \notin parsed
       /\ \A i \in 1..Len(fetch_next_queue) :
            \E j \in 1..Len(batch.digests) : batch.digests[j] = fetch_next_queue[i]
  /\ \A t, u \in transfers :
       (t.via = "batch" /\ u.via = "stream") => t.digest # u.digest

\* C39 witness: a batch ran full, was downloaded and its directory moved to
\* fetch_queue, while the directory that did not fit waits in
\* fetch_next_queue with the new batch.
C39_Witness ==
  /\ pc \in {"fetch_directory", "fetch_directory_node"}
  /\ \E i \in 1..Len(fetch_queue) :
       /\ fetch_queue[i] # root
       /\ fetch_queue[i] \in fetched
       /\ Transfer("_fetch_directory_node", fetch_queue[i], "batch") \in transfers
  /\ fetch_next_queue # <<>>
  /\ Len(batch.digests) = 1

-----------------------------------------------------------------------------
\* set_ref while remove prunes: set_ref, lines 398-402, and _remove_ref,
\* lines 629-663, each by a process of its own.

\* A store that holds some refs, each naming Tree0, and no call under way.
InitRefPrune ==
  /\ CasParked
  /\ remote_objects = {}
  /\ FindParked
  /\ StoreParked
  /\ DiffParked
  /\ LaterParked
  /\ \E held \in SUBSET RefPaths :
       /\ held # {}
       /\ ref_dirs = UNION {makedirs({}, os_path_dirname(_refpath(r))) : r \in held}
       /\ ref_files = {<<_refpath(r), 0>> : r \in held}
       /\ stored = [r \in RefPaths |-> IF r \in held THEN Tree0 ELSE EmptyDigest]
  /\ ref_data = [k \in 0..MaxRefOps |->
                   IF k = 0 THEN SerializeToString(Tree0) ELSE <<>>]
  /\ ref_tmp = {}
  /\ touched = {}
  /\ rpc = [p \in RefProcs |-> "idle"]
  /\ rloc = [p \in RefProcs |-> NoRefLocals]
  /\ rret = [p \in RefProcs |-> NoRefReturn]
  /\ refs0 = [p \in RefProcs |-> [dirs |-> {}, files |-> {}]]
  /\ refserial = 0

\* p1 calls set_ref once and p2 removes a ref that exists, once, every system
\* call of one interleaved with those of the other.
NextRefPrune ==
  \/ \E refname \in RefPaths, digest \in RefDigests :
       /\ rloc["p1"].op = None
       /\ SetRef("p1", refname, digest)
  \/ SetRefWrite("p1")
  \/ SetRefRename("p1")
  \/ \E refname \in RefPaths :
       /\ rloc["p2"].op = None
       /\ RefExists(_refpath(refname))
       /\ Remove("p2", refname)
  \/ RemovePrune("p2")

SpecRefPrune == InitRefPrune /\ [][NextRefPrune]_vars

\* Both calls are over: set_ref(n1, d) by p1 and remove(n2) by p2, n1 and n2
\* distinct refs of one directory.
SetAndRemoved ==
  /\ rpc["p1"] = "idle" /\ rret["p1"].op = "set_ref"
  /\ rpc["p2"] = "idle" /\ rret["p2"].op = "remove"
  /\ rret["p1"].ref # rret["p2"].ref
  /\ os_path_dirname(rret["p1"].ref) = os_path_dirname(rret["p2"].ref)

\* C40: however set_ref(n1, d) and remove(n2) interleave, n1 and n2 distinct
\* refs of one directory and n2 existing, both return without error, n1 then
\* holds d, and every other ref that existed holds what it held.
C40_SetRefWhilePruning ==
  SetAndRemoved =>
    /\ rret["p1"].outcome = "ok"
    /\ rret["p2"].outcome = "ok"
    /\ RefExists(_refpath(rret["p1"].ref))
    /\ ParseFromString(ref_data[RefInode(_refpath(rret["p1"].ref))])
         = rloc["p1"].tree
    /\ \A f \in refs0["p2"].files :
         f[1] \notin {_refpath(rret["p1"].ref), _refpath(rret["p2"].ref)}
           => f \in RefView.files

=============================================================================
